---- MODULE Spec2Model ----
(***************************************************************************)
(* The organization engine of OpenVDR: FileOrganizerService                *)
(* (src/src/app/services/fileOrganizer.ts) over a MinIO bucket, driven by  *)
(* the /api/organize and /api/upload routes.                               *)
(*                                                                         *)
(* An object key is the sequence of its "/"-separated segments, so         *)
(* "a/x.pdf" is <<"a", "x.pdf">>.  Every service call is a request whose   *)
(* steps are the awaited MinIO calls of its handler: each awaited call is  *)
(* one atomic step, and the code between two awaits belongs to the step    *)
(* of the await that precedes it.                                          *)
(***************************************************************************)
EXTENDS Integers, Sequences, FiniteSets, TLC

VARIABLES store, req, calls, faults, sug, ui

vars == <<store, req, calls, faults, sug, ui>>

\* ------------------------------------------------------------------ bounds

\* Service calls (apply, move, revert) started in one behaviour.
MaxCalls == 2
\* MinIO calls that fail although the request was sound (the network, the
\* server), in one behaviour.
MaxFaults == 1

\* The request slots: two calls can overlap.
Reqs == {"r1", "r2"}

\* ------------------------------------------------------------ keys, content

HistoryKey == <<"_metadata", "organization_history.json">>

\* The keys of the uploaded files (the filePath or the file name of the form
\* data): two files of one name in two folders, a file of another name, and
\* one in a folder that a user happened to call _organized.
UploadedKeys == {<<"a", "x.pdf">>, <<"b", "x.pdf">>, <<"b", "y.pdf">>, <<"a", "_organized", "x.pdf">>}

\* The key a client uploads to later.
UploadKeys == {<<"b", "x.pdf">>}

Folders == {"tax-documents", "miscellaneous"}

\* objectName.split('/').pop()
Basename(k) == k[Len(k)]

\* A path built with the other folder.
NewObjectNameOtherFolder(k, folder) ==
    <<"_organized", CHOOSE f \in Folders : f # folder, Basename(k)>>

\* `_organized/${folder}/${basename}`
NewObjectName(k, folder) == <<"_organized", folder, Basename(k)>>

SourceKeys == UploadedKeys \cup {HistoryKey}

OrganizedKeys == {NewObjectName(k, f) : k \in SourceKeys, f \in Folders}

Keys == SourceKeys \cup OrganizedKeys

\* The keys in the order listObjects streams them: by key string, "_" before
\* the letters, "_metadata" before "_organized", "a/_organized" before "a/x".
KeyOrder ==
    <<HistoryKey,
      <<"_organized", "miscellaneous", "organization_history.json">>,
      <<"_organized", "miscellaneous", "x.pdf">>,
      <<"_organized", "miscellaneous", "y.pdf">>,
      <<"_organized", "tax-documents", "organization_history.json">>,
      <<"_organized", "tax-documents", "x.pdf">>,
      <<"_organized", "tax-documents", "y.pdf">>,
      <<"a", "_organized", "x.pdf">>,
      <<"a", "x.pdf">>,
      <<"b", "x.pdf">>,
      <<"b", "y.pdf">>>>

Absent == [kind |-> "absent", data |-> 0, doc |-> <<>>]

Blob(d) == [kind |-> "blob", data |-> d, doc |-> <<>>]

\* Buffer.from(JSON.stringify(history, null, 2))
Json(h) == [kind |-> "json", data |-> 0, doc |-> h]

\* The content a client uploads after the initial files.
NewData == 9

\* The first uploads: a/x.pdf, b/y.pdf and a/_organized/x.pdf.
InitStore ==
    [k \in Keys |->
        IF k = <<"a", "x.pdf">> THEN Blob(1)
        ELSE IF k = <<"b", "y.pdf">> THEN Blob(2)
        ELSE IF k = <<"a", "_organized", "x.pdf">> THEN Blob(3)
        ELSE Absent]

\* ------------------------------------------------------------ MinIO calls

\* minioClient.copyObject(bucket, dst, `${bucket}/${src}`): the source must
\* exist, and MinIO refuses to copy an object onto itself when the request
\* changes no metadata (InvalidCopyDest); the destination is replaced.
CanCopy(s, dst, src) == s[src].kind # "absent" /\ dst # src

CopyObject(s, dst, src) == [s EXCEPT ![dst] = s[src]]

\* minioClient.removeObject(bucket, k): removing a missing key is no error.
RemoveObject(s, k) == [s EXCEPT ![k] = Absent]

\* minioClient.putObject(bucket, k, buffer, ...)
PutObject(s, k, c) == [s EXCEPT ![k] = c]

\* getObject + JSON.parse of the history document: the parsed array, or a
\* throw (the key is absent, or its content is no JSON).
CanParse(c) == c.kind = "json"

Parse(c) == c.doc

\* The persisted History: what a reader of the history document obtains.
History == IF CanParse(store[HistoryKey]) THEN Parse(store[HistoryKey]) ELSE <<>>

\* ------------------------------------------------------------ requests

NoBatch == [batch |-> 0, actions |-> <<>>]

IdleReq ==
    [op |-> "none", pc |-> "idle", files |-> <<>>, idx |-> 0, actions |-> <<>>,
     history |-> <<>>, lastBatch |-> NoBatch, read |-> "none", ret |-> "none", id |-> 0,
     status |-> 0, pre |-> InitStore, followed |-> FALSE]

\* A request leaves its slot free once it has returned.
Free(r) == req[r].pc \in {"idle", "done"}

\* A call as it begins: its number, and the store it finds.
NewReq(operation, entries, first) ==
    [IdleReq EXCEPT !.op = operation, !.pc = first, !.files = entries, !.idx = 1,
                    !.id = calls + 1, !.pre = store]

\* The route's answer to the service's boolean: POST and PUT answer 200 to
\* true and 500 to false.
HttpStatus(value) == IF value = "true" THEN 200 ELSE 500

Return(r, q, value) ==
    req' = [req EXCEPT ![r] =
              [q EXCEPT !.pc = "done", !.ret = value, !.status = HttpStatus(value)]]

\* No GET /api/organize was answered yet.
NoSuggestion ==
    [pc |-> "none", bucket |-> <<>>, pos |-> 0, acc |-> <<>>,
     listing |-> "none", files |-> <<>>, outcome |-> [kind |-> "none", mapping |-> <<>>],
     called |-> FALSE, result |-> [threw |-> FALSE, files |-> <<>>, uniqueFolders |-> <<>>],
     status |-> 0]

\* No page or component is mounted.
NoUI ==
    [kind |-> "none", fromUpload |-> FALSE, mounted |-> FALSE,
     loading |-> FALSE, error |-> FALSE, organizingSuggestion |-> FALSE,
     showSuggestion |-> FALSE, organizationComplete |-> FALSE,
     organizationInProgress |-> FALSE,
     checks |-> 0, applies |-> 0, reverts |-> 0, timers |-> 0]

\* The bucket after the first uploads.  Nothing was organized yet (the
\* history document is absent), or an organization was applied and reverted
\* (it holds []).
Init ==
    /\ store \in {InitStore, PutObject(InitStore, HistoryKey, Json(<<>>))}
    /\ req = [r \in Reqs |-> IdleReq]
    /\ calls = 0
    /\ faults = 0
    /\ sug = NoSuggestion
    /\ ui = NoUI

\* ------------------------------------------------------- getRecentUploads

\* obj.name.includes('/_organized/'): a "/" on both sides, so the segment
\* "_organized" is neither the first nor the last of the key.
IncludesOrganized(k) == \E j \in 2..(Len(k) - 1) : k[j] = "_organized"

\* The objectName of every listed object that passes the filter, in the
\* order of the stream.
getRecentUploads(s) ==
    LET Unorganized(k) == s[k].kind # "absent" /\ ~IncludesOrganized(k)
    IN  SelectSeq(KeyOrder, Unorganized)

\* ------------------------------------------------------------ call starts

\* The call before this one, when calls do not overlap: the other slot's.
Other(r) == CHOOSE q \in Reqs : q # r

\* The caller keeps one call in flight (Spec), or lets calls overlap
\* (SpecConc).  One call at a time takes the slot the call before it did
\* not, which keeps that call's outcome in view.
CanStart(r, overlap) ==
    /\ Free(r)
    /\ calls < MaxCalls
    /\ overlap \/ (/\ \A q \in Reqs : Free(q)
                   /\ req[r].id <= req[Other(r)].id
                   /\ (req[r].id = req[Other(r)].id => r = "r1"))

\* ------------------------------------------------------ applyOrganization

\* The list-suggest-apply cycle: GET /api/organize lists the store with
\* getRecentUploads and gives every listed file one entry; the page posts
\* these entries with the folder the classifier proposed or the user chose,
\* and POST /api/organize begins applyOrganization(body.organization).
\* One submission puts its files in one folder: entries of one name then
\* share a newPath, entries of different names do not.
StartApply(r, overlap) ==
    /\ CanStart(r, overlap)
    /\ LET listed == getRecentUploads(store)
       IN  \E folder \in Folders :
              LET files == [j \in 1..Len(listed) |->
                               [objectName |-> listed[j], suggestedFolder |-> folder]]
              IN  req' = [req EXCEPT ![r] =
                            NewReq("apply", files, IF files = <<>> THEN "hget" ELSE "copy")]
    /\ calls' = calls + 1
    /\ UNCHANGED <<store, faults>>

\* PUT /api/organize {action: 'move'}: moveFile(objectName, targetFolder),
\* for a file the listing shows.
StartMove(r, overlap) ==
    /\ CanStart(r, overlap)
    /\ \E j \in 1..Len(getRecentUploads(store)), f \in Folders :
          /\ req' = [req EXCEPT ![r] =
                       NewReq("move", <<[objectName |-> getRecentUploads(store)[j],
                                       suggestedFolder |-> f]>>, "copy")]
    /\ calls' = calls + 1
    /\ UNCHANGED <<store, faults>>

\* The action applyOrganization pushes after the copy (no `action` field),
\* and the one moveFile hands to storeOrganizationHistory.
MoveAction(operation, file) ==
    [originalPath |-> file.objectName,
     newPath |-> NewObjectName(file.objectName, file.suggestedFolder),
     action |-> IF operation = "move" THEN "manual-move" ELSE ""]

\* A MinIO call that throws although its request was sound.
Fault ==
    /\ faults < MaxFaults
    /\ faults' = faults + 1

\* A copy that is not awaited: its failure goes unnoticed and the delete
\* follows.
ApplyCopyUnawaited(r) ==
    LET q == req[r]
        file == q.files[q.idx]
        dst == NewObjectName(file.objectName, file.suggestedFolder)
    IN  /\ q.pc = "copy"
        /\ UNCHANGED calls
        /\ req' = [req EXCEPT ![r] =
                     [q EXCEPT !.pc = "remove",
                               !.actions = Append(@, MoveAction(q.op, file))]]
        /\ \/ /\ CanCopy(store, dst, file.objectName)
              /\ store' = CopyObject(store, dst, file.objectName)
              /\ UNCHANGED faults
           \/ /\ ~CanCopy(store, dst, file.objectName)
              /\ UNCHANGED <<store, faults>>
           \/ /\ CanCopy(store, dst, file.objectName)
              /\ Fault
              /\ UNCHANGED store

\* A catch that would undo the moves already made before it returns false.
ApplyCopyRollingBack(r) ==
    LET q == req[r]
        file == q.files[q.idx]
        dst == NewObjectName(file.objectName, file.suggestedFolder)
    IN  /\ q.pc = "copy"
        /\ UNCHANGED calls
        /\ \/ /\ CanCopy(store, dst, file.objectName)
              /\ store' = CopyObject(store, dst, file.objectName)
              /\ req' = [req EXCEPT ![r] =
                           [q EXCEPT !.pc = "remove",
                                     !.actions = Append(@, MoveAction(q.op, file))]]
              /\ UNCHANGED faults
           \/ /\ ~CanCopy(store, dst, file.objectName)
              /\ Return(r, q, "false")
              /\ store' = q.pre
              /\ UNCHANGED faults
           \/ /\ CanCopy(store, dst, file.objectName)
              /\ Fault
              /\ Return(r, q, "false")
              /\ store' = q.pre

\* await copyObject(newObjectName, objectName), then organizationActions.push.
\* A throw (no such source, or a fault) ends the call in its catch: false.
ApplyCopy(r) ==
    LET q == req[r]
        file == q.files[q.idx]
        dst == NewObjectName(file.objectName, file.suggestedFolder)
    IN  /\ q.pc = "copy"
        /\ UNCHANGED calls
        /\ \/ /\ CanCopy(store, dst, file.objectName)
              /\ store' = CopyObject(store, dst, file.objectName)
              /\ req' = [req EXCEPT ![r] =
                           [q EXCEPT !.pc = "remove",
                                     !.actions = Append(@, MoveAction(q.op, file))]]
              /\ UNCHANGED faults
           \/ /\ ~CanCopy(store, dst, file.objectName)
              /\ Return(r, q, "false")
              /\ UNCHANGED <<store, faults>>
           \/ /\ CanCopy(store, dst, file.objectName)
              /\ Fault
              /\ Return(r, q, "false")
              /\ UNCHANGED store

\* await removeObject(objectName), then the next entry, or
\* storeOrganizationHistory after the last.
ApplyRemove(r) ==
    LET q == req[r]
        file == q.files[q.idx]
    IN  /\ q.pc = "remove"
        /\ UNCHANGED calls
        /\ \/ /\ store' = RemoveObject(store, file.objectName)
              /\ req' = [req EXCEPT ![r] =
                           [q EXCEPT !.idx = @ + 1,
                                     !.pc = IF q.idx = Len(q.files) THEN "hget" ELSE "copy"]]
              /\ UNCHANGED faults
           \/ /\ Fault
              /\ Return(r, q, "false")
              /\ UNCHANGED store

\* -------------------------------------------------- storeOrganizationHistory

\* history.push({batch: new Date().toISOString(), actions})
PushBatch(h, id, actions) == Append(h, [batch |-> id, actions |-> actions])

\* What the inner try leaves in `history`: the parsed document, or [] after
\* any throw (the document is absent, the read faults, the text does not
\* parse).
HistoryRead(outcome, c) == IF outcome = "ok" THEN Parse(c) ELSE <<>>

\* A read without the inner try: a throw of getObject or JSON.parse reaches
\* the outer catch of storeOrganizationHistory, nothing is pushed or written.
HistoryGetUnguarded(r) ==
    LET q == req[r]
        c == store[HistoryKey]
    IN  /\ q.pc = "hget"
        /\ UNCHANGED <<store, calls>>
        /\ \/ /\ CanParse(c)
              /\ req' = [req EXCEPT ![r] =
                           [q EXCEPT !.pc = "hput", !.read = "ok",
                                     !.history = PushBatch(Parse(c), q.id, q.actions)]]
              /\ UNCHANGED faults
           \/ /\ ~CanParse(c)
              /\ Return(r, [q EXCEPT !.read = "absent"], "true")
              /\ UNCHANGED faults
           \/ /\ Fault
              /\ Return(r, [q EXCEPT !.read = "error"], "true")

\* The inner try (getObject, read the stream, JSON.parse), then the push.
HistoryGet(r) ==
    LET q == req[r]
        c == store[HistoryKey]
        Read(outcome) ==
            req' = [req EXCEPT ![r] =
                      [q EXCEPT !.pc = "hput", !.read = outcome,
                                !.history = PushBatch(HistoryRead(outcome, c), q.id, q.actions)]]
    IN  /\ q.pc = "hget"
        /\ UNCHANGED <<store, calls>>
        /\ \/ /\ CanParse(c)
              /\ Read("ok")
              /\ UNCHANGED faults
           \/ /\ ~CanParse(c)
              /\ Read("absent")
              /\ UNCHANGED faults
           \/ /\ Fault
              /\ Read("error")

\* A write-back that would re-read the document and push onto what it holds
\* at that moment, instead of writing the array read earlier.
HistoryPutRereading(r) ==
    LET q == req[r]
    IN  /\ q.pc = "hput"
        /\ UNCHANGED calls
        /\ \/ /\ store' = PutObject(store, HistoryKey, Json(PushBatch(History, q.id, q.actions)))
              /\ UNCHANGED faults
           \/ /\ Fault
              /\ UNCHANGED store
        /\ Return(r, q, "true")

\* await putObject(history document).  A throw is caught and logged by
\* storeOrganizationHistory itself: its caller returns true either way.
HistoryPut(r) ==
    LET q == req[r]
    IN  /\ q.pc = "hput"
        /\ UNCHANGED calls
        /\ \/ /\ store' = PutObject(store, HistoryKey, Json(q.history))
              /\ UNCHANGED faults
           \/ /\ Fault
              /\ UNCHANGED store
        /\ Return(r, q, "true")

\* ------------------------------------------------- revertLastOrganization

\* PUT /api/organize {action: 'revert'}: revertLastOrganization() begins.
StartRevert(r, overlap) ==
    /\ CanStart(r, overlap)
    /\ req' = [req EXCEPT ![r] = NewReq("revert", <<>>, "rget")]
    /\ calls' = calls + 1
    /\ UNCHANGED <<store, faults>>

\* A shift in place of the pop: the oldest batch is taken.
First(h) == h[1]

\* history.pop(): the batch taken, and the array left.
Last(h) == h[Len(h)]

\* A pop that would leave the batch in the array.
FrontKeepingLast(h) == h

Front(h) == SubSeq(h, 1, Len(h) - 1)

\* An empty history answered as a success.
EmptyHistoryResultTrue == "true"

\* What revertLastOrganization returns when the history it read is empty.
EmptyHistoryResult == "false"

\* A pop that would also write the shortened array to the history document.
StoreAfterPopPersisted(s, h) == PutObject(s, HistoryKey, Json(Front(h)))

\* The store after history.pop(): pop shortens the array in memory only, the
\* document is written after the loop.
StoreAfterPop(s, h) == s

\* getObject, read the stream, JSON.parse: a throw (absent document, faulted
\* read, unparsable text) ends the call in its catch with false.  An empty
\* array returns at once.  Otherwise lastBatch = history.pop().
RevertGet(r) ==
    LET q == req[r]
        c == store[HistoryKey]
    IN  /\ q.pc = "rget"
        /\ UNCHANGED calls
        /\ \/ /\ CanParse(c)
              /\ Len(Parse(c)) > 0
              /\ store' = StoreAfterPop(store, Parse(c))
              /\ req' = [req EXCEPT ![r] =
                           [q EXCEPT !.read = "ok",
                                     !.lastBatch = Last(Parse(c)),
                                     !.history = Front(Parse(c)),
                                     !.pc = IF Len(Last(Parse(c)).actions) = 0
                                            THEN "rput" ELSE "rcopy"]]
              /\ UNCHANGED faults
           \/ /\ CanParse(c)
              /\ Len(Parse(c)) = 0
              /\ Return(r, [q EXCEPT !.read = "ok"], EmptyHistoryResult)
              /\ UNCHANGED <<store, faults>>
           \/ /\ ~CanParse(c)
              /\ Return(r, [q EXCEPT !.read = "absent"], "false")
              /\ UNCHANGED <<store, faults>>
           \/ /\ Fault
              /\ Return(r, [q EXCEPT !.read = "error"], "false")
              /\ UNCHANGED store

\* await copyObject(action.originalPath, action.newPath)
RevertCopy(r) ==
    LET q == req[r]
        action == q.lastBatch.actions[q.idx]
    IN  /\ q.pc = "rcopy"
        /\ UNCHANGED calls
        /\ \/ /\ CanCopy(store, action.originalPath, action.newPath)
              /\ store' = CopyObject(store, action.originalPath, action.newPath)
              /\ req' = [req EXCEPT ![r] = [q EXCEPT !.pc = "rremove"]]
              /\ UNCHANGED faults
           \/ /\ ~CanCopy(store, action.originalPath, action.newPath)
              /\ Return(r, q, "false")
              /\ UNCHANGED <<store, faults>>
           \/ /\ CanCopy(store, action.originalPath, action.newPath)
              /\ Fault
              /\ Return(r, q, "false")
              /\ UNCHANGED store

\* await removeObject(action.newPath), then the next action, or the write of
\* the shortened history after the last.
RevertRemove(r) ==
    LET q == req[r]
        action == q.lastBatch.actions[q.idx]
    IN  /\ q.pc = "rremove"
        /\ UNCHANGED calls
        /\ \/ /\ store' = RemoveObject(store, action.newPath)
              /\ req' = [req EXCEPT ![r] =
                           [q EXCEPT !.idx = @ + 1,
                                     !.pc = IF q.idx = Len(q.lastBatch.actions)
                                            THEN "rput" ELSE "rcopy"]]
              /\ UNCHANGED faults
           \/ /\ Fault
              /\ Return(r, q, "false")
              /\ UNCHANGED store

\* A write-back that would empty the history instead of shortening it.
RevertPutClearing(r) ==
    LET q == req[r]
    IN  /\ q.pc = "rput"
        /\ UNCHANGED calls
        /\ \/ /\ store' = PutObject(store, HistoryKey, Json(<<>>))
              /\ Return(r, q, "true")
              /\ UNCHANGED faults
           \/ /\ Fault
              /\ Return(r, q, "false")
              /\ UNCHANGED store

\* await putObject(history document): true, or false on a throw.
RevertPut(r) ==
    LET q == req[r]
    IN  /\ q.pc = "rput"
        /\ UNCHANGED calls
        /\ \/ /\ store' = PutObject(store, HistoryKey, Json(q.history))
              /\ Return(r, q, "true")
              /\ UNCHANGED faults
           \/ /\ Fault
              /\ Return(r, q, "false")
              /\ UNCHANGED store

\* ------------------------------------------------------------ /api/upload

\* POST /api/upload: putObject(objectName = filePath or file.name), with
\* content the store does not hold at that key yet.  A call that has
\* returned is marked as followed by an upload.
Upload ==
    /\ \A q \in Reqs : Free(q)
    /\ \E k \in UploadKeys :
          /\ store[k] # Blob(NewData)
          /\ store' = PutObject(store, k, Blob(NewData))
    /\ req' = [r \in Reqs |->
                 IF req[r].pc = "done" THEN [req[r] EXCEPT !.followed = TRUE] ELSE req[r]]
    /\ UNCHANGED <<calls, faults>>

\* ------------------------------------------------------------- behaviours

Step(r) ==
    \/ ApplyCopy(r)
    \/ ApplyRemove(r)
    \/ HistoryGet(r)
    \/ HistoryPut(r)
    \/ RevertGet(r)
    \/ RevertCopy(r)
    \/ RevertRemove(r)
    \/ RevertPut(r)

Next ==
    \/ (\E r \in Reqs : StartApply(r, FALSE)) /\ UNCHANGED <<sug, ui>>
    \/ (\E r \in Reqs : StartMove(r, FALSE)) /\ UNCHANGED <<sug, ui>>
    \/ (\E r \in Reqs : StartRevert(r, FALSE)) /\ UNCHANGED <<sug, ui>>
    \/ (\E r \in Reqs : Step(r)) /\ UNCHANGED <<sug, ui>>
    \/ Upload /\ UNCHANGED <<sug, ui>>

Spec == Init /\ [][Next]_vars

NextConc ==
    \/ (\E r \in Reqs : StartApply(r, TRUE)) /\ UNCHANGED <<sug, ui>>
    \/ (\E r \in Reqs : StartRevert(r, TRUE)) /\ UNCHANGED <<sug, ui>>
    \/ (\E r \in Reqs : Step(r)) /\ UNCHANGED <<sug, ui>>

SpecConc == Init /\ [][NextConc]_vars

\* A bucket found later in its life.  Either moveFile('a/x.pdf',
\* 'tax-documents') was applied before the calls counted here, and History
\* holds its batch; or a client uploaded a file that is no JSON with the
\* filePath of the history document.
PriorBatch ==
    [batch |-> 0,
     actions |-> <<MoveAction("move", [objectName |-> <<"a", "x.pdf">>,
                                       suggestedFolder |-> "tax-documents"])>>]

MovedStore ==
    LET action == PriorBatch.actions[1]
        copied == CopyObject(InitStore, action.newPath, action.originalPath)
        removed == RemoveObject(copied, action.originalPath)
    IN  PutObject(removed, HistoryKey, Json(<<PriorBatch>>))

CorruptStore == PutObject(InitStore, HistoryKey, Blob(NewData))

InitLater ==
    /\ store \in {MovedStore, CorruptStore}
    /\ req = [r \in Reqs |-> IdleReq]
    /\ calls = 0
    /\ faults = 0
    /\ sug = NoSuggestion
    /\ ui = NoUI

SpecLater == InitLater /\ [][Next]_vars

SpecLaterConc == InitLater /\ [][NextConc]_vars

\* A bucket in which applyOrganization moved a/x.pdf and b/y.pdf to
\* tax-documents before the calls counted here: History holds the batch of
\* the two moves.
AppliedBatch ==
    [batch |-> 0,
     actions |-> <<MoveAction("apply", [objectName |-> <<"a", "x.pdf">>,
                                        suggestedFolder |-> "tax-documents"]),
                   MoveAction("apply", [objectName |-> <<"b", "y.pdf">>,
                                        suggestedFolder |-> "tax-documents"])>>]

AppliedStore ==
    LET first == AppliedBatch.actions[1]
        second == AppliedBatch.actions[2]
        one == RemoveObject(CopyObject(InitStore, first.newPath, first.originalPath),
                            first.originalPath)
        two == RemoveObject(CopyObject(one, second.newPath, second.originalPath),
                            second.originalPath)
    IN  PutObject(two, HistoryKey, Json(<<AppliedBatch>>))

InitApplied ==
    /\ store = AppliedStore
    /\ req = [r \in Reqs |-> IdleReq]
    /\ calls = 0
    /\ faults = 0
    /\ sug = NoSuggestion
    /\ ui = NoUI

SpecApplied == InitApplied /\ [][Next]_vars

\* The store a successful moveFile or one-entry applyOrganization leaves:
\* the object copied and deleted, the batch appended to the history read.
AfterMove(s, id, operation, file) ==
    LET action == MoveAction(operation, file)
        moved == RemoveObject(CopyObject(s, action.newPath, action.originalPath),
                              action.originalPath)
        history == IF CanParse(s[HistoryKey]) THEN Parse(s[HistoryKey]) ELSE <<>>
    IN  PutObject(moved, HistoryKey, Json(PushBatch(history, id, <<action>>)))

\* The objects of the two calls made before the calls counted here.
TwoObjects == {<<"a", "x.pdf">>, <<"b", "y.pdf">>}

\* The buckets after an applyOrganization of one of the two objects to
\* tax-documents and a moveFile of the other to a folder: History holds the
\* two batches, numbered -1 and 0.
TwoBatchStores ==
    {AfterMove(AfterMove(InitStore, -1, "apply",
                         [objectName |-> t[1], suggestedFolder |-> "tax-documents"]),
               0, "move", [objectName |-> t[2], suggestedFolder |-> t[3]]) :
        t \in {u \in TwoObjects \X TwoObjects \X Folders : u[1] # u[2]}}

InitTwoBatches ==
    /\ store \in TwoBatchStores
    /\ req = [r \in Reqs |-> IdleReq]
    /\ calls = 0
    /\ faults = 0
    /\ sug = NoSuggestion
    /\ ui = NoUI

SpecTwoBatches == InitTwoBatches /\ [][Next]_vars

\* ------------------------------------------------------ suggestOrganization

\* A sequence given by its elements, as a tuple.
Tuple(f) == f \o <<>>

\* A string is the sequence of its characters.
UpperCase == <<"A", "B", "C", "D", "E", "F", "G", "H", "I", "J", "K", "L", "M", "N", "O", "P", "Q", "R", "S", "T", "U", "V", "W", "X", "Y", "Z">>

LowerCase == <<"a", "b", "c", "d", "e", "f", "g", "h", "i", "j", "k", "l", "m", "n", "o", "p", "q", "r", "s", "t", "u", "v", "w", "x", "y", "z">>

\* The characters /\s/ matches, of those that occur here.
Whitespace == {" ", "\t"}

\* String.prototype.toLowerCase
toLowerCase(str) ==
    Tuple([i \in 1..Len(str) |->
              IF \E k \in 1..Len(UpperCase) : UpperCase[k] = str[i]
              THEN LowerCase[CHOOSE k \in 1..Len(UpperCase) : UpperCase[k] = str[i]]
              ELSE str[i]])

\* A replace without the g flag: the first run of whitespace only.
RECURSIVE ReplaceFirstRun(_)
ReplaceFirstRun(str) ==
    IF str = <<>> THEN <<>>
    ELSE IF Head(str) \notin Whitespace THEN <<Head(str)>> \o ReplaceFirstRun(Tail(str))
    ELSE IF Len(str) > 1 /\ str[2] \in Whitespace THEN ReplaceFirstRun(Tail(str))
    ELSE <<"-">> \o Tail(str)

\* str.replace(/\s+/g, '-'): every run of whitespace becomes one hyphen.
RECURSIVE ReplaceWhitespace(_)
ReplaceWhitespace(str) ==
    IF str = <<>> THEN <<>>
    ELSE IF Head(str) \notin Whitespace THEN <<Head(str)>> \o ReplaceWhitespace(Tail(str))
    ELSE IF Len(str) > 1 /\ str[2] \in Whitespace THEN ReplaceWhitespace(Tail(str))
    ELSE <<"-">> \o ReplaceWhitespace(Tail(str))

\* A replace('\s', '-') without the regular expression: the first blank only.
RECURSIVE ReplaceFirstBlank(_)
ReplaceFirstBlank(str) ==
    IF str = <<>> THEN <<>>
    ELSE IF Head(str) = " " THEN <<"-">> \o Tail(str)
    ELSE <<Head(str)>> \o ReplaceFirstBlank(Tail(str))

NormalizeFolderFirstBlank(str) == toLowerCase(ReplaceFirstBlank(str))

\* suggestedFolder.replace(/\s+/g, '-').toLowerCase()
NormalizeFolder(str) == toLowerCase(ReplaceWhitespace(str))

\* String.prototype.includes
includes(str, sub) ==
    \E i \in 1..(Len(str) - Len(sub) + 1) : SubSeq(str, i, i + Len(sub) - 1) = sub

\* The tests of categorizeFile in their order, each with the label it
\* returns (a test `a || b` is two rows with one label).
CategoryRules ==
    <<<<<<"1", "0", "9", "9">>,
        <<"T", "a", "x", " ", "D", "o", "c", "u", "m", "e", "n", "t", "s">>>>,
      <<<<"A", "d", "d", "e", "n", "d", "u", "m">>,
        <<"C", "o", "n", "t", "r", "a", "c", "t", " ", "A", "d", "d", "e", "n", "d", "u", "m", "s">>>>,
      <<<<"A", "f", "f", "i", "d", "a", "v", "i", "t">>,
        <<"L", "e", "g", "a", "l", " ", "D", "o", "c", "u", "m", "e", "n", "t", "s">>>>,
      <<<<"A", "g", "e", "n", "t">>,
        <<"A", "g", "e", "n", "t", " ", "C", "o", "m", "m", "u", "n", "i", "c", "a", "t", "i", "o", "n", "s">>>>,
      <<<<"A", "p", "p", "r", "a", "i", "s", "a", "l">>,
        <<"P", "r", "o", "p", "e", "r", "t", "y", " ", "V", "a", "l", "u", "a", "t", "i", "o", "n">>>>,
      <<<<"A", "s", "b", "e", "s", "t", "o", "s">>,
        <<"I", "n", "s", "p", "e", "c", "t", "i", "o", "n", " ", "R", "e", "p", "o", "r", "t", "s">>>>,
      <<<<"I", "n", "s", "p", "e", "c", "t", "i", "o", "n">>,
        <<"I", "n", "s", "p", "e", "c", "t", "i", "o", "n", " ", "R", "e", "p", "o", "r", "t", "s">>>>,
      <<<<"A", "t", "t", "o", "r", "n", "e", "y">>,
        <<"L", "e", "g", "a", "l", " ", "C", "o", "r", "r", "e", "s", "p", "o", "n", "d", "e", "n", "c", "e">>>>,
      <<<<"B", "a", "l", "a", "n", "c", "e">>,
        <<"F", "i", "n", "a", "n", "c", "i", "a", "l", " ", "D", "o", "c", "u", "m", "e", "n", "t", "s">>>>,
      <<<<"S", "t", "a", "t", "e", "m", "e", "n", "t">>,
        <<"F", "i", "n", "a", "n", "c", "i", "a", "l", " ", "D", "o", "c", "u", "m", "e", "n", "t", "s">>>>,
      <<<<"T", "e", "n", "a", "n", "t">>,
        <<"T", "e", "n", "a", "n", "t", " ", "R", "e", "c", "o", "r", "d", "s">>>>,
      <<<<"L", "e", "a", "s", "e">>,
        <<"T", "e", "n", "a", "n", "t", " ", "R", "e", "c", "o", "r", "d", "s">>>>,
      <<<<"I", "n", "s", "u", "r", "a", "n", "c", "e">>,
        <<"I", "n", "s", "u", "r", "a", "n", "c", "e", " ", "D", "o", "c", "u", "m", "e", "n", "t", "s">>>>,
      <<<<"T", "a", "x">>,
        <<"T", "a", "x", " ", "D", "o", "c", "u", "m", "e", "n", "t", "s">>>>,
      <<<<"T", "i", "t", "l", "e">>,
        <<"T", "i", "t", "l", "e", " ", "D", "o", "c", "u", "m", "e", "n", "t", "s">>>>,
      <<<<"P", "r", "o", "p", "e", "r", "t", "y">>,
        <<"P", "r", "o", "p", "e", "r", "t", "y", " ", "D", "o", "c", "u", "m", "e", "n", "t", "s">>>>,
      <<<<"L", "o", "a", "n">>,
        <<"L", "o", "a", "n", " ", "D", "o", "c", "u", "m", "e", "n", "t", "s">>>>,
      <<<<"H", "O", "A">>,
        <<"H", "O", "A", " ", "D", "o", "c", "u", "m", "e", "n", "t", "s">>>>,
      <<<<"U", "t", "i", "l", "i", "t", "y">>,
        <<"U", "t", "i", "l", "i", "t", "i", "e", "s">>>>,
      <<<<"C", "o", "n", "t", "r", "a", "c", "t">>,
        <<"C", "o", "n", "t", "r", "a", "c", "t", "s">>>>>>

Miscellaneous == <<"M", "i", "s", "c", "e", "l", "l", "a", "n", "e", "o", "u", "s">>

RECURSIVE FirstRule(_, _)
FirstRule(filename, k) ==
    IF k > Len(CategoryRules) THEN Miscellaneous
    ELSE IF includes(filename, CategoryRules[k][1]) THEN CategoryRules[k][2]
    ELSE FirstRule(filename, k + 1)

\* The display names of the listed files.
DisplayNames ==
    {<<"L", "e", "a", "s", "e", "_", "A", "g", "r", "e", "e", "m", "e", "n", "t", ".", "p", "d", "f">>,
     <<"T", "a", "x", "_", "F", "o", "r", "m", "_", "1", "0", "9", "9", ".", "p", "d", "f">>,
     <<"T", "a", "x", "_", "R", "e", "t", "u", "r", "n", ".", "p", "d", "f">>,
     <<"T", "a", "x", "_", "B", "i", "l", "l", ".", "p", "d", "f">>}

\* A name the classifier may add of its own.
InventedName == <<"T", "a", "x", "_", "N", "o", "t", "e", "s", ".", "t", "x", "t">>

\* The labels of categorizeFile for the names that occur, computed once.
AllNames == DisplayNames \cup {InventedName}

CategoryOf == [name \in AllNames |-> FirstRule(name, 1)]

categorizeFile(filename) ==
    IF filename \in DOMAIN CategoryOf THEN CategoryOf[filename] ELSE FirstRule(filename, 1)

\* The folderNameMap of improveFolderNames.
folderNameMap ==
    <<<<<<"1", "0", "9", "9">>,
        <<"T", "a", "x", " ", "D", "o", "c", "u", "m", "e", "n", "t", "s">>>>,
      <<<<"F", "o", "r", "m", "s">>,
        <<"T", "a", "x", " ", "D", "o", "c", "u", "m", "e", "n", "t", "s">>>>,
      <<<<"A", "d", "d", "e", "n", "d", "u", "m">>,
        <<"C", "o", "n", "t", "r", "a", "c", "t", " ", "A", "d", "d", "e", "n", "d", "u", "m", "s">>>>,
      <<<<"E", "m", "a", "i", "l", "s">>,
        <<"C", "o", "m", "m", "u", "n", "i", "c", "a", "t", "i", "o", "n", "s">>>>,
      <<<<"R", "e", "p", "o", "r", "t">>,
        <<"R", "e", "p", "o", "r", "t", "s">>>>,
      <<<<"C", "o", "r", "r", "e", "s", "p", "o", "n", "d", "e", "n", "c", "e">>,
        <<"C", "o", "m", "m", "u", "n", "i", "c", "a", "t", "i", "o", "n", "s">>>>,
      <<<<"F", "i", "n", "a", "n", "c", "i", "a", "l">>,
        <<"F", "i", "n", "a", "n", "c", "i", "a", "l", " ", "D", "o", "c", "u", "m", "e", "n", "t", "s">>>>,
      <<<<"S", "t", "a", "t", "e", "m", "e", "n", "t">>,
        <<"F", "i", "n", "a", "n", "c", "i", "a", "l", " ", "D", "o", "c", "u", "m", "e", "n", "t", "s">>>>,
      <<<<"L", "o", "a", "n">>,
        <<"L", "o", "a", "n", " ", "D", "o", "c", "u", "m", "e", "n", "t", "s">>>>,
      <<<<"I", "n", "s", "u", "r", "a", "n", "c", "e">>,
        <<"I", "n", "s", "u", "r", "a", "n", "c", "e", " ", "D", "o", "c", "u", "m", "e", "n", "t", "s">>>>,
      <<<<"T", "e", "n", "a", "n", "t">>,
        <<"T", "e", "n", "a", "n", "t", " ", "R", "e", "c", "o", "r", "d", "s">>>>,
      <<<<"H", "O", "A">>,
        <<"H", "O", "A", " ", "D", "o", "c", "u", "m", "e", "n", "t", "s">>>>,
      <<<<"T", "i", "t", "l", "e">>,
        <<"T", "i", "t", "l", "e", " ", "D", "o", "c", "u", "m", "e", "n", "t", "s">>>>,
      <<<<"P", "e", "r", "m", "i", "t", "s">>,
        <<"P", "e", "r", "m", "i", "t", "s">>>>,
      <<<<"I", "n", "s", "p", "e", "c", "t", "i", "o", "n">>,
        <<"I", "n", "s", "p", "e", "c", "t", "i", "o", "n", " ", "R", "e", "p", "o", "r", "t", "s">>>>,
      <<<<"L", "e", "g", "a", "l">>,
        <<"L", "e", "g", "a", "l", " ", "D", "o", "c", "u", "m", "e", "n", "t", "s">>>>,
      <<<<"U", "t", "i", "l", "i", "t", "y">>,
        <<"U", "t", "i", "l", "i", "t", "i", "e", "s">>>>,
      <<<<"T", "a", "x">>,
        <<"T", "a", "x", " ", "D", "o", "c", "u", "m", "e", "n", "t", "s">>>>,
      <<<<"P", "r", "o", "p", "e", "r", "t", "y">>,
        <<"P", "r", "o", "p", "e", "r", "t", "y", " ", "D", "o", "c", "u", "m", "e", "n", "t", "s">>>>,
      <<<<"C", "o", "n", "t", "r", "a", "c", "t">>,
        <<"C", "o", "n", "t", "r", "a", "c", "t", "s">>>>>>

\* if (folderNameMap[currentFolder]) improved[file] = folderNameMap[currentFolder]
BetterName(folder) ==
    IF \E k \in 1..Len(folderNameMap) : folderNameMap[k][1] = folder
    THEN folderNameMap[CHOOSE k \in 1..Len(folderNameMap) : folderNameMap[k][1] = folder][2]
    ELSE folder

\* file.split('_')[0]
Prefix(name) ==
    LET at == {i \in 1..Len(name) : name[i] = "_"}
    IN  IF at = {} THEN name
        ELSE SubSeq(name, 1, (CHOOSE i \in at : \A j \in at : i <= j) - 1)

\* A list of folders that keeps the repetitions.
Repeated(folders) == folders

\* The folders in the order in which they first appear.
RECURSIVE Unique(_)
Unique(folders) ==
    IF folders = <<>> THEN <<>>
    ELSE LET front == Unique(SubSeq(folders, 1, Len(folders) - 1))
             last == folders[Len(folders)]
         IN  IF \E i \in 1..Len(front) : front[i] = last THEN front ELSE Append(front, last)

Digits == <<"0", "1", "2", "3", "4", "5", "6", "7", "8", "9">>

DigitValue(c) == CHOOSE d \in 1..Len(Digits) : Digits[d] = c

\* A property key that is a canonical array index: digits only, no leading
\* zero, below 2^32 - 1 (here: up to nine digits).
IsArrayIndex(key) ==
    /\ key # <<>>
    /\ Len(key) < 10
    /\ \A i \in 1..Len(key) : \E d \in 1..Len(Digits) : Digits[d] = key[i]
    /\ Len(key) = 1 \/ key[1] # "0"

\* The numeric order of two array indices.
IndexLess(a, b) ==
    \/ Len(a) < Len(b)
    \/ /\ Len(a) = Len(b)
       /\ \E i \in 1..Len(a) :
             /\ DigitValue(a[i]) < DigitValue(b[i])
             /\ \A j \in 1..(i - 1) : a[j] = b[j]

\* Object.keys of an object whose string keys were inserted in the given
\* order: the array indices in ascending numeric order, then the other keys
\* in the order of insertion.
ObjectKeys(inserted) ==
    SortSeq(SelectSeq(inserted, IsArrayIndex), IndexLess)
        \o SelectSeq(inserted, LAMBDA key : ~IsArrayIndex(key))

\* getMostCommonItem: counts is keyed by the items; the walk over
\* Object.keys(counts) keeps the first key whose count is greater than every
\* count before it.
getMostCommonItem(arr) ==
    LET Count(x) == Cardinality({i \in 1..Len(arr) : arr[i] = x})
        keys == ObjectKeys(Unique(arr))
        best == {i \in 1..Len(keys) : \A j \in 1..Len(keys) : Count(keys[j]) <= Count(keys[i])}
    IN  keys[CHOOSE i \in best : \A j \in best : i <= j]

\* An object keyed by file name is the sequence of its [name, folder] pairs
\* in the order of insertion, one pair per name.
HasName(organization, name) == \E i \in 1..Len(organization) : organization[i].name = name

FolderOf(organization, name) ==
    organization[CHOOSE i \in 1..Len(organization) : organization[i].name = name].folder

\* The entries of one prefix, in the order of Object.keys.
SamePrefix(organization, name) ==
    SelectSeq(organization, LAMBDA e : Prefix(e.name) = Prefix(name))

improveFolderNames(organization) ==
    LET improved == Tuple([i \in 1..Len(organization) |->
                              [organization[i] EXCEPT !.folder = BetterName(@)]])
        Group(name) == SamePrefix(improved, name)
        GroupFolders(group) == Tuple([j \in 1..Len(group) |-> group[j].folder])
    IN  Tuple([i \in 1..Len(improved) |->
                  IF Len(Group(improved[i].name)) > 1
                  THEN [improved[i] EXCEPT
                           !.folder = getMostCommonItem(GroupFolders(Group(improved[i].name)))]
                  ELSE improved[i]])

\* missingFiles.forEach(file => fileOrganization[file] = categorizeFile(file))
RECURSIVE AddMissing(_, _)
AddMissing(fileOrganization, fileNames) ==
    IF fileNames = <<>> THEN fileOrganization
    ELSE AddMissing(IF HasName(fileOrganization, Head(fileNames)) THEN fileOrganization
                    ELSE Append(fileOrganization,
                                [name |-> Head(fileNames),
                                 folder |-> categorizeFile(Head(fileNames))]),
                    Tail(fileNames))

Uncategorized == <<"U", "n", "c", "a", "t", "e", "g", "o", "r", "i", "z", "e", "d">>

\* file.path.includes('/') ? file.path.substring(0, file.path.lastIndexOf('/')) : null
OriginalFolder(key) == IF Len(key) > 1 THEN SubSeq(key, 1, Len(key) - 1) ELSE <<>>

Suggestion(files, folders) ==
    [threw |-> FALSE,
     files |-> Tuple([j \in 1..Len(files) |->
                        [objectName |-> files[j].objectName,
                         suggestedFolder |-> folders[j],
                         originalFolder |-> OriginalFolder(files[j].objectName)]]),
     uniqueFolders |-> Unique(folders)]

\* A catch that would hand on the label of categorizeFile as it is.
FallbackUnnormalized(files) ==
    Suggestion(files, Tuple([j \in 1..Len(files) |-> categorizeFile(files[j].name)]))

\* The catch of suggestOrganization: every file by categorizeFile alone.
Fallback(files) ==
    Suggestion(files, Tuple([j \in 1..Len(files) |->
                                NormalizeFolder(categorizeFile(files[j].name))]))

\* The try of suggestOrganization once the response is parsed:
\* improvedOrganization[file.name] || 'Uncategorized', normalized.
Improved(files, fileOrganization) ==
    LET fileNames == Tuple([j \in 1..Len(files) |-> files[j].name])
        improvedOrganization == improveFolderNames(AddMissing(fileOrganization, fileNames))
        Folder(name) == LET f == FolderOf(improvedOrganization, name)
                        IN  IF f = <<>> THEN Uncategorized ELSE f
    IN  Suggestion(files, Tuple([j \in 1..Len(files) |-> NormalizeFolder(Folder(fileNames[j]))]))

\* What the classifier call comes to: the create call rejects, the content
\* is no JSON, it is JSON of another shape than string to string, the
\* content is empty (read as '{}'), or it is a mapping.
Throws(outcome) == outcome.kind \in {"rejected", "invalid-json", "invalid-schema"}

\* A catch that would log the error and throw it again.
suggestOrganizationRethrowing(files, outcome) ==
    IF files = <<>> THEN Suggestion(<<>>, <<>>)
    ELSE IF Throws(outcome) THEN [threw |-> TRUE, files |-> <<>>, uniqueFolders |-> <<>>]
    ELSE Improved(files, outcome.mapping)

suggestOrganization(files, outcome) ==
    IF files = <<>> THEN Suggestion(<<>>, <<>>)
    ELSE IF Throws(outcome) THEN Fallback(files)
    ELSE Improved(files, outcome.mapping)

\* ---------------------------------------------------- GET /api/organize

\* Files of one request.
MaxFiles == 3

\* The folders the classifier answers with: a key of folderNameMap, a plain
\* name, a name with capitals and a run of whitespace, the empty string.
Answers ==
    {<<"T", "a", "x">>,
     <<"R", "e", "p", "o", "r", "t", "s">>,
     <<"L", "e", "g", "a", "l", " ", "\t", "D", "o", "c", "s">>,
     <<>>}

FileOf(name) == [name |-> name, objectName |-> <<"docs", name>>]

\* The lists of up to MaxFiles different files.
FileLists ==
    UNION {{Tuple([j \in 1..n |-> FileOf(names[j])]) :
              names \in {s \in [1..n -> DisplayNames] : \A i, j \in 1..n : i # j => s[i] # s[j]}} :
           n \in 0..MaxFiles}

Reverse(seq) == Tuple([j \in 1..Len(seq) |-> seq[Len(seq) + 1 - j]])

\* The mappings a response may hold for a list of files: each file is omitted
\* or answered, in the order of the list or in the reverse order, and a pair
\* for the invented name may follow.
Mappings(files) ==
    LET n == Len(files)
        Chosen(pick) == SelectSeq(Tuple([j \in 1..n |->
                                            [name |-> files[j].name, folder |-> pick[j]]]),
                                  LAMBDA e : e.folder # <<"omitted">>)
        answered == {Chosen(pick) : pick \in [1..n -> Answers \cup {<<"omitted">>}]}
        ordered == answered \cup {Reverse(m) : m \in answered}
    IN  ordered \cup {Append(m, [name |-> InventedName, folder |-> f]) :
                        m \in ordered, f \in {<<"R", "e", "p", "o", "r", "t", "s">>}}

Outcomes(files) ==
    {[kind |-> k, mapping |-> <<>>] : k \in {"rejected", "invalid-json", "invalid-schema", "empty"}}
        \cup {[kind |-> "mapping", mapping |-> m] : m \in Mappings(files)}

\* GET /api/organize, first await: getRecentUploads opens the stream of
\* listObjects over the objects of the bucket and waits for its events.
List ==
    /\ sug.pc = "none"
    /\ \E bucket \in FileLists :
          sug' = [sug EXCEPT !.pc = "stream", !.bucket = bucket]
    /\ UNCHANGED <<store, req, calls, faults, ui>>

\* stream.on('data'): the object is skipped if its name includes
\* '/_organized/', and pushed to the local array otherwise.
OnData ==
    /\ sug.pc = "stream"
    /\ sug.pos < Len(sug.bucket)
    /\ LET obj == sug.bucket[sug.pos + 1]
       IN  sug' = [sug EXCEPT !.pos = @ + 1,
                              !.acc = IF IncludesOrganized(obj.objectName) THEN @ ELSE Append(@, obj)]
    /\ UNCHANGED <<store, req, calls, faults, ui>>

\* An error handler that would resolve with the objects seen so far.
OnErrorResolving ==
    /\ sug.pc = "stream"
    /\ sug' = [sug EXCEPT !.pc = "listed", !.listing = "error", !.files = sug.acc]
    /\ UNCHANGED <<store, req, calls, faults, ui>>

\* stream.on('error', reject), at any point of the enumeration: the promise
\* rejects, the await in GET throws and the route answers 500.
OnError ==
    /\ sug.pc = "stream"
    /\ sug' = [sug EXCEPT !.pc = "done", !.listing = "error", !.status = 500]
    /\ UNCHANGED <<store, req, calls, faults, ui>>

\* stream.on('end'): the promise resolves with the local array.
OnEnd ==
    /\ sug.pc = "stream"
    /\ sug.pos = Len(sug.bucket)
    /\ sug' = [sug EXCEPT !.pc = "listed", !.listing = "ok", !.files = sug.acc]
    /\ UNCHANGED <<store, req, calls, faults, ui>>

\* A suggestion step that would also leave a document in the bucket.
SuggestSaving ==
    /\ sug.pc = "listed"
    /\ \E outcome \in Outcomes(sug.files) :
          LET result == suggestOrganization(sug.files, outcome)
          IN  sug' = [sug EXCEPT !.pc = "done", !.outcome = outcome,
                                 !.called = sug.files # <<>>, !.result = result,
                                 !.status = IF result.threw THEN 500 ELSE 200]
    /\ store' = PutObject(store, HistoryKey, Json(<<>>))
    /\ UNCHANGED <<req, calls, faults, ui>>

\* GET /api/organize, second await: suggestOrganization, answered 200 with
\* the suggestion, or 500 if it throws.  The classifier is called unless
\* there are no files.
Suggest ==
    /\ sug.pc = "listed"
    /\ \E outcome \in Outcomes(sug.files) :
          LET result == suggestOrganization(sug.files, outcome)
          IN  sug' = [sug EXCEPT !.pc = "done", !.outcome = outcome,
                                 !.called = sug.files # <<>>, !.result = result,
                                 !.status = IF result.threw THEN 500 ELSE 200]
    /\ UNCHANGED <<store, req, calls, faults, ui>>

NextSuggest == List \/ OnData \/ OnError \/ OnEnd \/ Suggest

\* The suggestion depends on the listed names alone: one bucket is enough.
InitSuggest == Init /\ store = InitStore

SpecSuggest == InitSuggest /\ [][NextSuggest]_vars

\* ------------------------------------------------ folders named by year

\* Folders a classifier answers with when it files by year.
YearAnswers == {<<"R", "e", "p", "o", "r", "t", "s">>, <<"2", "0", "2", "4">>, <<"T", "a", "x">>}

\* Every file answered, in the order of the list.
YearOutcomes(files) ==
    {[kind |-> "mapping",
      mapping |-> Tuple([j \in 1..Len(files) |-> [name |-> files[j].name, folder |-> pick[j]]])] :
        pick \in [1..Len(files) -> YearAnswers]}

\* GET /api/organize has listed its files.
InitYears ==
    /\ store = InitStore
    /\ req = [r \in Reqs |-> IdleReq]
    /\ calls = 0
    /\ faults = 0
    /\ sug \in {[NoSuggestion EXCEPT !.pc = "listed", !.listing = "ok", !.bucket = files,
                                     !.pos = Len(files), !.acc = files, !.files = files] :
                   files \in FileLists \ {<<>>}}
    /\ ui = NoUI

\* suggestOrganization with one of these answers.
SuggestYears ==
    /\ sug.pc = "listed"
    /\ \E outcome \in YearOutcomes(sug.files) :
          LET result == suggestOrganization(sug.files, outcome)
          IN  sug' = [sug EXCEPT !.pc = "done", !.outcome = outcome,
                                 !.called = TRUE, !.result = result,
                                 !.status = IF result.threw THEN 500 ELSE 200]
    /\ UNCHANGED <<store, req, calls, faults, ui>>

NextYears == SuggestYears

SpecYears == InitYears /\ [][NextYears]_vars

\* ------------------------------------------------ the classifier request

\* Array.prototype.join on texts.
RECURSIVE JoinWith(_, _)
JoinWith(parts, separator) ==
    IF parts = <<>> THEN <<>>
    ELSE IF Len(parts) = 1 THEN parts[1]
    ELSE parts[1] \o <<separator>> \o JoinWith(Tail(parts), separator)

\* text.split(separator).pop(): what follows the last separator.
RECURSIVE AfterLast(_, _)
AfterLast(text, separator) ==
    IF \A i \in 1..Len(text) : text[i] # separator THEN text
    ELSE AfterLast(Tail(text), separator)

\* The FileMetadata getRecentUploads pushes for a listed object.
Metadata(obj) ==
    [name |-> AfterLast(obj.name, "/"),
     path |-> obj.name,
     objectName |-> obj.name,
     size |-> obj.size,
     type |-> AfterLast(obj.name, "."),
     uploadDate |-> obj.lastModified]

\* Files of one classifier request.
MaxRequestFiles == 2

RequestNames == {<<"T", "a", "x", "_", "B", "i", "l", "l", ".", "p", "d", "f">>, <<"L", "e", "a", "s", "e", ".", "p", "d", "f">>}

\* Where an object lies, with a size and a date of its own.
RequestFolders == <<<<>>, <<"a", "/">>, <<"a", "/", "b", ".", "c", "/">>>>

RequestObjects ==
    {[name |-> RequestFolders[v] \o name, size |-> v, lastModified |-> v] :
        name \in RequestNames, v \in 1..Len(RequestFolders)}

RequestLists ==
    UNION {{Tuple([j \in 1..n |-> Metadata(objs[j])]) : objs \in [1..n -> RequestObjects]} :
           n \in 1..MaxRequestFiles}

\* A list of names that would hold the keys of the objects.
RequestObjectNames(files) == Tuple([j \in 1..Len(files) |-> files[j].objectName])

\* const fileNames = files.map(file => file.name)
RequestFileNames(files) == Tuple([j \in 1..Len(files) |-> files[j].name])

\* The template literal, its fixed text in two pieces.
prompt(fileNames) ==
    <<"\nI have the following files that need to be organized into topic folders for my Real Estate Deal:\n">>
    \o JoinWith(fileNames, "\n")
    \o <<"\n\nFor each file, suggest a single topic folder name ... with no additional text.\n">>

\* process.env.OPENAI_MODEL, "" when it is not set.
ModelSettings == {"", "gpt-4o-mini"}

\* The argument of openai.chat.completions.create.
ClassifierRequest(files, setting) ==
    [model |-> IF setting = "" THEN "gpt-4o" ELSE setting,
     messages |-> <<[role |-> "system",
                     content |-> "You are a helpful assistant that organizes files into logical folders. Respond with ONLY a JSON object, nothing else."],
                    [role |-> "user", content |-> prompt(RequestFileNames(files))]>>,
     response_format |-> [type |-> "json_object"],
     temperature |-> "0.1"]

\* Two lists of files, each to be classified by a call of its own.
InitRequest ==
    /\ store = InitStore
    /\ req = [r \in Reqs |-> IdleReq]
    /\ calls = 0
    /\ faults = 0
    /\ sug \in {[pc |-> "lists", first |-> first, second |-> second, requests |-> <<>>] :
                   first \in RequestLists, second \in RequestLists}
    /\ ui = NoUI

\* suggestOrganization, up to the create call, for the one list and the other.
BuildRequests ==
    /\ sug.pc = "lists"
    /\ \E setting \in ModelSettings :
          sug' = [sug EXCEPT !.pc = "built",
                             !.requests = <<ClassifierRequest(sug.first, setting),
                                            ClassifierRequest(sug.second, setting)>>]
    /\ UNCHANGED <<store, req, calls, faults, ui>>

NextRequest == BuildRequests

SpecRequest == InitRequest /\ [][NextRequest]_vars

\* ------------------------------------------------- folder normalization

\* Characters of a folder name.
MaxFolderLen == 4

\* A capital, a small letter, the two kinds of whitespace, the hyphen.
FolderChars == {"A", "b", " ", "\t", "-"}

\* The folder names of up to MaxFolderLen characters.
FolderStrings == UNION {{Tuple(s) : s \in [1..n -> FolderChars]} : n \in 0..MaxFolderLen}

\* The times a name is normalized.
MaxTimes == 2

\* A suggestedFolder about to be normalized.
InitNormalize ==
    /\ store = InitStore
    /\ req = [r \in Reqs |-> IdleReq]
    /\ calls = 0
    /\ faults = 0
    /\ sug \in {[pc |-> "folder", suggestedFolder |-> s, before |-> s, times |-> 0] :
                   s \in FolderStrings}
    /\ ui = NoUI

\* suggestedFolder = suggestedFolder.replace(/\s+/g, '-').toLowerCase()
Normalize ==
    /\ sug.pc = "folder"
    /\ sug.times < MaxTimes
    /\ sug' = [sug EXCEPT !.before = sug.suggestedFolder,
                           !.suggestedFolder = NormalizeFolder(@),
                           !.times = @ + 1]
    /\ UNCHANGED <<store, req, calls, faults, ui>>

NextNormalize == Normalize

SpecNormalize == InitNormalize /\ [][NextNormalize]_vars

\* ------------------------------------- the organize page, FileOrganizer

\* Requests one instance has in flight.
MaxPending == 2

\* One instance: the organize page (reached from the upload page or not) or
\* the FileOrganizer component, before its first effect runs.
InitUI ==
    /\ store = InitStore
    /\ req = [r \in Reqs |-> IdleReq]
    /\ calls = 0
    /\ faults = 0
    /\ sug = NoSuggestion
    /\ ui \in {[NoUI EXCEPT !.kind = "page", !.fromUpload = f] : f \in BOOLEAN}
                \cup {[NoUI EXCEPT !.kind = "component"]}

Pending(u) == u.checks + u.applies + u.reverts

\* checkForUnorganizedFiles up to its await: setLoading(true),
\* setError(null), axios.get('/api/organize').
BeginCheck(u) == [u EXCEPT !.loading = TRUE, !.error = FALSE, !.checks = @ + 1]

\* The section with the table and the Apply button is rendered.
SuggestionShown(u) ==
    IF u.kind = "page"
    THEN ~u.loading /\ ~u.organizationComplete /\ u.organizingSuggestion
    ELSE u.showSuggestion /\ u.organizingSuggestion

\* The Check and Revert buttons are rendered: the page shows them without a
\* suggestion, the component always.
ManualShown(u) ==
    IF u.kind = "page"
    THEN ~u.loading /\ ~u.organizationComplete /\ ~u.organizingSuggestion
    ELSE TRUE

\* disabled={...} of the Check and Revert buttons.
ManualDisabled(u) ==
    IF u.kind = "page"
    THEN u.loading
    ELSE u.loading \/ u.organizationInProgress \/ u.showSuggestion

\* disabled={organizationInProgress} of Keep Original Structure and Apply.
SuggestionDisabled(u) == u.organizationInProgress

ApplyEnabled(u) == u.mounted /\ SuggestionShown(u) /\ ~SuggestionDisabled(u)

RevertEnabled(u) == u.mounted /\ ManualShown(u) /\ ~ManualDisabled(u)

CheckEnabled(u) == u.mounted /\ ManualShown(u) /\ ~ManualDisabled(u)

\* useEffect on mount: the component checks, the page checks if it was
\* reached from an upload.
Mount ==
    /\ ui.kind # "none"
    /\ ~ui.mounted
    /\ ui' = IF ui.kind = "component" \/ ui.fromUpload
             THEN BeginCheck([ui EXCEPT !.mounted = TRUE])
             ELSE [ui EXCEPT !.mounted = TRUE]
    /\ UNCHANGED <<store, req, calls, faults, sug>>

\* onClick={checkForUnorganizedFiles}
ClickCheck ==
    /\ CheckEnabled(ui)
    /\ Pending(ui) < MaxPending
    /\ ui' = BeginCheck(ui)
    /\ UNCHANGED <<store, req, calls, faults, sug>>

\* The GET is answered: with files (the suggestion is kept, the component
\* opens its popup), without files (the page shows an error), or it fails;
\* finally setLoading(false).
CheckReturns ==
    /\ ui.mounted
    /\ ui.checks > 0
    /\ \E answer \in {"files", "none", "failed"} :
          ui' = [ui EXCEPT
                    !.checks = @ - 1,
                    !.loading = FALSE,
                    !.organizingSuggestion = IF answer = "files" THEN TRUE ELSE @,
                    !.showSuggestion = IF answer = "files" /\ ui.kind = "component" THEN TRUE ELSE @,
                    !.error = IF answer = "failed" \/ (answer = "none" /\ ui.kind = "page")
                              THEN TRUE ELSE @]
    /\ UNCHANGED <<store, req, calls, faults, sug>>

\* onClick={applyOrganization} up to its await:
\* setOrganizationInProgress(true), setError(null), axios.post.
ClickApply ==
    /\ ApplyEnabled(ui)
    /\ Pending(ui) < MaxPending
    /\ ui' = [ui EXCEPT !.organizationInProgress = TRUE, !.error = FALSE, !.applies = @ + 1]
    /\ UNCHANGED <<store, req, calls, faults, sug>>

\* The POST is answered: on success setOrganizationComplete(true) (the
\* component also closes its popup) and a timer is set; on failure the error
\* is shown; finally setOrganizationInProgress(false).
ApplyReturns ==
    /\ ui.mounted
    /\ ui.applies > 0
    /\ \E ok \in BOOLEAN :
          ui' = [ui EXCEPT
                    !.applies = @ - 1,
                    !.organizationInProgress = FALSE,
                    !.organizationComplete = IF ok THEN TRUE ELSE @,
                    !.showSuggestion = IF ok /\ ui.kind = "component" THEN FALSE ELSE @,
                    !.timers = IF ok THEN 1 ELSE @,
                    !.error = IF ok THEN @ ELSE TRUE]
    /\ UNCHANGED <<store, req, calls, faults, sug>>

\* The timer set by a successful apply: the page leaves for /upload, the
\* component clears the message and the suggestion.
Timeout ==
    /\ ui.mounted
    /\ ui.timers > 0
    /\ ui' = IF ui.kind = "page"
             THEN [NoUI EXCEPT !.kind = "left"]
             ELSE [ui EXCEPT !.timers = 0, !.organizationComplete = FALSE,
                             !.organizingSuggestion = FALSE]
    /\ UNCHANGED <<store, req, calls, faults, sug>>

\* onClick={revertOrganization} up to its await:
\* setOrganizationInProgress(true), setError(null), axios.put.
ClickRevert ==
    /\ RevertEnabled(ui)
    /\ Pending(ui) < MaxPending
    /\ ui' = [ui EXCEPT !.organizationInProgress = TRUE, !.error = FALSE, !.reverts = @ + 1]
    /\ UNCHANGED <<store, req, calls, faults, sug>>

\* The PUT is answered: on success checkForUnorganizedFiles() is called (not
\* awaited); on failure the error is shown; finally
\* setOrganizationInProgress(false).
RevertReturns ==
    /\ ui.mounted
    /\ ui.reverts > 0
    /\ \E ok \in BOOLEAN :
          LET after == [ui EXCEPT !.reverts = @ - 1, !.organizationInProgress = FALSE]
          IN  ui' = IF ok THEN BeginCheck(after) ELSE [after EXCEPT !.error = TRUE]
    /\ UNCHANGED <<store, req, calls, faults, sug>>

\* onClick={keepOriginalStructure}: the page leaves for /upload, the
\* component closes its popup and drops the suggestion.
ClickKeepOriginal ==
    /\ ui.mounted
    /\ SuggestionShown(ui)
    /\ ~SuggestionDisabled(ui)
    /\ ui' = IF ui.kind = "page"
             THEN [NoUI EXCEPT !.kind = "left"]
             ELSE [ui EXCEPT !.showSuggestion = FALSE, !.organizingSuggestion = FALSE]
    /\ UNCHANGED <<store, req, calls, faults, sug>>

NextUI ==
    \/ Mount
    \/ ClickCheck
    \/ CheckReturns
    \/ ClickApply
    \/ ApplyReturns
    \/ Timeout
    \/ ClickRevert
    \/ RevertReturns
    \/ ClickKeepOriginal

SpecUI == InitUI /\ [][NextUI]_vars

\* ------------------------------------------- editing and submitting

\* String.prototype.trim
RECURSIVE TrimStart(_)
TrimStart(str) ==
    IF str # <<>> /\ Head(str) \in Whitespace THEN TrimStart(Tail(str)) ELSE str

RECURSIVE TrimEnd(_)
TrimEnd(str) ==
    IF str # <<>> /\ str[Len(str)] \in Whitespace
    THEN TrimEnd(SubSeq(str, 1, Len(str) - 1))
    ELSE str

trim(str) == TrimEnd(TrimStart(str))

\* newFolderName.trim().toLowerCase().replace(/\s+/g, '-')
normalizedFolderName(newFolderName) == ReplaceWhitespace(toLowerCase(trim(newFolderName)))

\* The folders of the suggestions received, and what the user types as the
\* name of a new folder: a new name with blanks around and inside it, the
\* name of a folder that exists, blanks only.
ReceivedFolders == {<<"t", "a", "x">>, <<"l", "e", "g", "a", "l", "-", "d", "o", "c", "u", "m", "e", "n", "t", "s">>}

NewFolderNames == {<<" ", "N", "e", "w", " ", " ", "F", "o", "l", "d", "e", "r", " ">>, <<"t", "a", "x">>, <<" ", "\t">>}

\* The suggestions GET /api/organize answers with for a/x.pdf and b/y.pdf.
Received ==
    {[files |-> <<[objectName |-> <<"a", "x.pdf">>, suggestedFolder |-> f1],
                  [objectName |-> <<"b", "y.pdf">>, suggestedFolder |-> f2]>>,
      uniqueFolders |-> Unique(<<f1, f2>>)] : f1 \in ReceivedFolders, f2 \in ReceivedFolders}

\* initialEditState[file.objectName] = file.suggestedFolder
InitialEditState(suggestion) ==
    [k \in {suggestion.files[j].objectName : j \in 1..Len(suggestion.files)} |->
        LET j == CHOOSE i \in 1..Len(suggestion.files) :
                     /\ suggestion.files[i].objectName = k
                     /\ \A h \in (i + 1)..Len(suggestion.files) : suggestion.files[h].objectName # k
        IN  suggestion.files[j].suggestedFolder]

NoSubmission == [files |-> <<>>, uniqueFolders |-> <<>>]

\* The page or the component holds a suggestion and shows its table.
InitEdit ==
    /\ store = InitStore
    /\ req = [r \in Reqs |-> IdleReq]
    /\ calls = 0
    /\ faults = 0
    /\ sug = NoSuggestion
    /\ ui \in {[kind |-> "edit", pc |-> "editing", organizingSuggestion |-> s,
                editedFolders |-> InitialEditState(s),
                submitted |-> NoSubmission, moves |-> <<>>] : s \in Received}

\* onChange of a row's select: one of the options, which are the
\* uniqueFolders of the suggestion held.
handleFolderChange ==
    /\ ui.kind = "edit" /\ ui.pc = "editing"
    /\ \E j \in 1..Len(ui.organizingSuggestion.files),
          i \in 1..Len(ui.organizingSuggestion.uniqueFolders) :
          ui' = [ui EXCEPT !.editedFolders[ui.organizingSuggestion.files[j].objectName] =
                               ui.organizingSuggestion.uniqueFolders[i]]
    /\ UNCHANGED <<store, req, calls, faults, sug>>

\* createNewFolder: nothing for a blank name or a folder that exists, else
\* the normalized name is appended to uniqueFolders.
createNewFolder ==
    /\ ui.kind = "edit" /\ ui.pc = "editing"
    /\ \E newFolderName \in NewFolderNames :
          LET prev == ui.organizingSuggestion
              name == normalizedFolderName(newFolderName)
          IN  ui' = IF trim(newFolderName) = <<>>
                       \/ \E i \in 1..Len(prev.uniqueFolders) : prev.uniqueFolders[i] = name
                    THEN ui
                    ELSE [ui EXCEPT !.organizingSuggestion.uniqueFolders = Append(@, name)]
    /\ UNCHANGED <<store, req, calls, faults, sug>>

\* A submission that would keep the uniqueFolders of the suggestion held.
updatedSuggestionStale(organizingSuggestion, editedFolders) ==
    [files |-> Tuple([j \in 1..Len(organizingSuggestion.files) |->
                         LET file == organizingSuggestion.files[j]
                         IN  [file EXCEPT !.suggestedFolder =
                                  IF editedFolders[file.objectName] # <<>>
                                  THEN editedFolders[file.objectName] ELSE @]]),
     uniqueFolders |-> organizingSuggestion.uniqueFolders]

\* applyOrganization of the page and of the component: every entry with
\* editedFolders[file.objectName] || file.suggestedFolder, and uniqueFolders
\* = Array.from(new Set(...)) of these folders.
updatedSuggestion(organizingSuggestion, editedFolders) ==
    LET files == Tuple([j \in 1..Len(organizingSuggestion.files) |->
                           LET file == organizingSuggestion.files[j]
                           IN  [file EXCEPT !.suggestedFolder =
                                    IF editedFolders[file.objectName] # <<>>
                                    THEN editedFolders[file.objectName] ELSE @]])
    IN  [files |-> files,
         uniqueFolders |-> Unique(Tuple([j \in 1..Len(files) |-> files[j].suggestedFolder]))]

\* onClick={applyOrganization}: axios.post('/api/organize', {organization:
\* updatedSuggestion}).
Submit ==
    /\ ui.kind = "edit" /\ ui.pc = "editing"
    /\ ui' = [ui EXCEPT !.pc = "submitted",
                        !.submitted = updatedSuggestion(ui.organizingSuggestion, ui.editedFolders)]
    /\ UNCHANGED <<store, req, calls, faults, sug>>

\* The moves applyOrganization(body.organization) makes: one for each of
\* organization.files, in their order.
Moves(organization) ==
    Tuple([j \in 1..Len(organization.files) |-> MoveAction("apply", organization.files[j])])

\* POST /api/organize takes the submission.
Post ==
    /\ ui.kind = "edit" /\ ui.pc = "submitted"
    /\ ui' = [ui EXCEPT !.pc = "posted", !.moves = Moves(ui.submitted)]
    /\ UNCHANGED <<store, req, calls, faults, sug>>

NextEdit == handleFolderChange \/ createNewFolder \/ Submit \/ Post

SpecEdit == InitEdit /\ [][NextEdit]_vars

\* ---------------------------------------------------------------- claims

\* The History a call found when it began.
PreHistory(q) == IF CanParse(q.pre[HistoryKey]) THEN Parse(q.pre[HistoryKey]) ELSE <<>>

IsPrefix(a, b) == Len(a) <= Len(b) /\ SubSeq(b, 1, Len(a)) = a

\* The keys getRecentUploads returns for a store.
Listed(s) == {getRecentUploads(s)[j] : j \in 1..Len(getRecentUploads(s))}

BatchIds(h) == {h[j].batch : j \in 1..Len(h)}

\* The call has returned, no call began after it and no upload followed it:
\* the store is as the call left it.
JustReturned(q, ops) ==
    /\ q.pc = "done"
    /\ q.op \in ops
    /\ q.id = calls
    /\ ~q.followed

\* An entry of the call names the history document itself.
TouchesHistory(q) == \E j \in 1..Len(q.files) : q.files[j].objectName = HistoryKey

NewPathOf(file) == NewObjectName(file.objectName, file.suggestedFolder)

\* C1: after an applyOrganization that returned true, the revert that follows
\* it returns true, leaves every moved object at its originalPath with the
\* content it had before the apply and absent from its newPath, and leaves
\* History without that batch.  Stated for the runs in which no MinIO call
\* faults, where it already fails for entries that share a basename and a
\* folder.
C1_ApplyThenRevertRestores ==
    \A r \in Reqs :
        LET q == req[r]
            p == req[Other(r)]
        IN  (/\ faults = 0
             /\ JustReturned(q, {"revert"})
             /\ p.pc = "done" /\ p.op = "apply" /\ p.ret = "true"
             /\ p.id + 1 = q.id
             /\ ~p.followed)
            => /\ q.ret = "true"
               /\ \A j \in 1..Len(p.files) :
                     /\ store[p.files[j].objectName] = p.pre[p.files[j].objectName]
                     /\ store[NewPathOf(p.files[j])] = Absent
               /\ p.id \notin BatchIds(History)

\* C2: after any apply attempt (applyOrganization or moveFile, whatever it
\* returns) every object that existed before still has its content at its
\* original key or at its newPath, never at neither.
C2_ContentAtOriginalOrNewPath ==
    \A r \in Reqs :
        LET q == req[r]
        IN  JustReturned(q, {"apply", "move"})
            => \A j \in 1..Len(q.files) :
                  LET k == q.files[j].objectName
                  IN  q.pre[k] # Absent
                      => \/ store[k] = q.pre[k]
                         \/ store[NewPathOf(q.files[j])] = q.pre[k]

\* C3: once a successful applyOrganization or moveFile has moved an object
\* under _organized/<folder>/<basename>, getRecentUploads no longer returns
\* it.
C3_MovedObjectNotListed ==
    \A r \in Reqs :
        LET q == req[r]
        IN  (JustReturned(q, {"apply", "move"}) /\ q.ret = "true")
            => \A j \in 1..Len(q.files) : NewPathOf(q.files[j]) \notin Listed(store)

\* C4: from an empty History, after N applyOrganization calls that each
\* returned true and no revert, History holds exactly N batches, one per
\* call in call order; after one successful revert it holds N - 1.
C4_OneBatchPerSuccessfulApply ==
    /\ (/\ Cardinality({r \in Reqs : req[r].id > 0}) = calls
        /\ \A r \in Reqs :
              req[r].id > 0 => (req[r].pc = "done" /\ req[r].op = "apply" /\ req[r].ret = "true"))
       => /\ Len(History) = calls
          /\ \A j \in 1..Len(History) : History[j].batch = j
    /\ \A r \in Reqs :
          LET q == req[r]
              p == req[Other(r)]
          IN  (/\ JustReturned(q, {"revert"}) /\ q.ret = "true"
               /\ p.pc = "done" /\ p.op = "apply" /\ p.ret = "true"
               /\ p.id = 1 /\ q.id = 2)
              => Len(History) = 0

\* C5: when a copy or delete fails partway through applyOrganization, the
\* moves completed before the failure are recorded: one batch listing exactly
\* those moves has been appended to History when the call returns false.
C5_PartialApplyIsRecorded ==
    \A r \in Reqs :
        LET q == req[r]
        IN  (/\ JustReturned(q, {"apply"}) /\ q.ret = "false"
             /\ q.idx > 1
             /\ ~TouchesHistory(q))
            => /\ Len(History) = Len(PreHistory(q)) + 1
               /\ Last(History) = [batch |-> q.id, actions |-> SubSeq(q.actions, 1, q.idx - 1)]

\* C6: no applyOrganization or moveFile call removes, reorders or alters a
\* batch already in History, whatever the outcome of its read of the history
\* document: the History it found is a prefix of the History it leaves.
C6_AppendKeepsEarlierBatches ==
    \A r \in Reqs :
        LET q == req[r]
        IN  (JustReturned(q, {"apply", "move"}) /\ ~TouchesHistory(q))
            => IsPrefix(PreHistory(q), History)

\* C7: revertLastOrganization on an empty History (the document holds [])
\* returns a value other than the one it returns for an error, the route
\* answers it with another status than a failed revert's 500, and the store
\* is unchanged.
C7_EmptyRevertIsNoError ==
    \A r \in Reqs :
        LET q == req[r]
        IN  (/\ JustReturned(q, {"revert"})
             /\ q.read = "ok" /\ q.lastBatch = NoBatch)
            => /\ q.ret # "false"
               /\ q.status # HttpStatus("false")
               /\ store = q.pre

\* The one batch a call appends.
OwnBatch(q) == [batch |-> q.id, actions |-> q.actions]

\* C8: an absent history document behaves as an empty History.  An append
\* that finds no document is about to write, and without a fault leaves, a
\* History of exactly its one batch, as an append that finds [] does; a
\* revert that finds no document returns what a revert that finds [] returns,
\* with the same status and the store unchanged.
C8_AbsentDocumentIsEmptyHistory ==
    \A r \in Reqs :
        LET q == req[r]
        IN  /\ (q.pc = "hput" /\ q.read = "absent") => q.history = <<OwnBatch(q)>>
            /\ (q.pc = "hput" /\ q.read = "ok" /\ PreHistory(q) = <<>> /\ ~TouchesHistory(q))
               => q.history = <<OwnBatch(q)>>
            /\ (JustReturned(q, {"apply", "move"}) /\ q.read = "absent" /\ faults = 0)
               => History = <<OwnBatch(q)>>
            /\ (JustReturned(q, {"revert"}) /\ q.read = "absent")
               => /\ q.ret = EmptyHistoryResult
                  /\ q.status = HttpStatus(EmptyHistoryResult)
                  /\ store = q.pre
            /\ (JustReturned(q, {"revert"}) /\ q.read = "ok" /\ q.lastBatch = NoBatch)
               => /\ q.ret = EmptyHistoryResult
                  /\ q.status = HttpStatus(EmptyHistoryResult)
                  /\ store = q.pre

\* A revert found no document and returned, then an apply found no document
\* and left a History of its one batch.
C8_Witness ==
    \E r \in Reqs :
        LET q == req[r]
            p == req[Other(r)]
        IN  /\ p.pc = "done" /\ p.op = "revert" /\ p.read = "absent" /\ p.ret = "false"
            /\ JustReturned(q, {"apply"}) /\ q.read = "absent" /\ q.ret = "true"
            /\ Len(q.actions) > 0
            /\ History = <<OwnBatch(q)>>

\* The revert took a batch and then failed in a copy or a delete of its loop.
FailedMidBatch(q) ==
    /\ JustReturned(q, {"revert"})
    /\ q.ret = "false"
    /\ q.lastBatch # NoBatch
    /\ q.idx <= Len(q.lastBatch.actions)

\* An action of the batch restores the history document itself.
BatchTouchesHistory(b) == \E j \in 1..Len(b.actions) : b.actions[j].originalPath = HistoryKey

BothReadThenWrote(q, p) ==
    /\ q.pc = "done" /\ q.op = "apply" /\ q.ret = "true"
    /\ p.pc = "done" /\ p.op = "apply" /\ p.ret = "true"
    /\ calls = 2
    /\ faults = 0
    /\ Front(q.history) = Front(p.history)

\* C10: when two overlapping applyOrganization calls interleave their read
\* and write-back of the history document, both return true and History ends
\* as the array one of them wrote: the History they read plus one batch, never
\* both batches.
C10_OverlappingAppliesLoseABatch ==
    \A r \in Reqs :
        LET q == req[r]
            p == req[Other(r)]
        IN  BothReadThenWrote(q, p)
            => /\ History \in {q.history, p.history}
               /\ Len(History) = Len(Front(q.history)) + 1
               /\ ~({q.id, p.id} \subseteq BatchIds(History))

\* The lost update: both calls returned true, History holds only the batch of
\* one, and an object the other moved lies at a newPath no batch records.
C10_Witness ==
    \E r \in Reqs :
        LET q == req[r]
            p == req[Other(r)]
        IN  /\ BothReadThenWrote(q, p)
            /\ History = q.history
            /\ p.id \notin BatchIds(History)
            /\ \E j \in 1..Len(p.actions) :
                  /\ store[p.actions[j].newPath] # Absent
                  /\ \A b \in 1..Len(History) : \A a \in 1..Len(History[b].actions) :
                        History[b].actions[a].newPath # p.actions[j].newPath

\* A revert and an apply both returned true without a fault; the revert took
\* a batch that is not the apply's (it read the history document before the
\* apply's append was written), and the document is not the array the apply
\* wrote (the revert's write-back came after it).
AppendFellInsideRevert(q, p) ==
    /\ q.pc = "done" /\ q.op = "revert" /\ q.ret = "true"
    /\ p.pc = "done" /\ p.op = "apply" /\ p.ret = "true"
    /\ calls = 2
    /\ faults = 0
    /\ q.lastBatch.batch # p.id
    /\ History # p.history

\* C11: when an applyOrganization's history append falls between a concurrent
\* revertLastOrganization's read of the history document and its write-back,
\* both calls return true and the final History is the array the revert
\* wrote: it holds neither the reverted batch nor the batch of the apply.
C11_RevertOverwritesRacingAppend ==
    \A r \in Reqs :
        LET q == req[r]
            p == req[Other(r)]
        IN  AppendFellInsideRevert(q, p)
            => /\ History = q.history
               /\ q.lastBatch.batch \notin BatchIds(History)
               /\ p.id \notin BatchIds(History)

\* The apply moved objects and wrote its batch, the revert then wrote the
\* array it had shortened: neither batch is in History.
C11_Witness ==
    \E r \in Reqs :
        LET q == req[r]
            p == req[Other(r)]
        IN  /\ AppendFellInsideRevert(q, p)
            /\ q.lastBatch = PriorBatch
            /\ Len(p.actions) > 0
            /\ p.history # <<>>
            /\ BatchIds(History) \cap {q.lastBatch.batch, p.id} = {}

\* The call found a history document that is no JSON.
UnparsableAtStart(q) == q.pre[HistoryKey].kind = "blob"

\* C12: when the history document does not parse, an append (applyOrganization
\* or moveFile) goes on as if History were empty, is about to write and,
\* without a fault, leaves a History of only its new batch; a
\* revertLastOrganization returns false, answered 500, and leaves the object
\* store and the history document as they were.
C12_UnparsableDocument ==
    \A r \in Reqs :
        LET q == req[r]
        IN  /\ (q.pc = "hput" /\ UnparsableAtStart(q)) => q.history = <<OwnBatch(q)>>
            /\ (JustReturned(q, {"apply", "move"}) /\ UnparsableAtStart(q)
                    /\ q.ret = "true" /\ faults = 0)
               => History = <<OwnBatch(q)>>
            /\ (JustReturned(q, {"revert"}) /\ UnparsableAtStart(q))
               => /\ q.ret = "false"
                  /\ q.status = 500
                  /\ store = q.pre

\* A revert found the unparsable document and failed without a change, then a
\* moveFile found it too and left a History of its one batch.
C12_Witness ==
    \E r \in Reqs :
        LET q == req[r]
            p == req[Other(r)]
        IN  /\ p.pc = "done" /\ p.op = "revert" /\ UnparsableAtStart(p) /\ p.ret = "false"
            /\ JustReturned(q, {"move"}) /\ UnparsableAtStart(q) /\ ~TouchesHistory(q)
            /\ q.read = "absent" /\ q.ret = "true"
            /\ History = <<OwnBatch(q)>>

\* The call leaves its loop of copies and deletes in this step: a copy or a
\* delete threw.
LeavesLoop(r) ==
    /\ req[r].pc \in {"copy", "remove", "rcopy", "rremove"}
    /\ req'[r].pc = "done"

\* C13: when a copy or delete fails during applyOrganization or
\* revertLastOrganization, the call returns false (answered 500) and the step
\* that ends it changes no object: the moves already completed stay as they
\* are, no compensating copy or delete is issued.
C13_FailureLeavesCompletedMoves ==
    [][\A r \in Reqs :
          (req[r].op \in {"apply", "revert"} /\ LeavesLoop(r))
          => /\ req'[r].ret = "false"
             /\ req'[r].status = 500
             /\ store' = store]_vars

\* An apply has returned false after it moved its first object, which is
\* still at its newPath and gone from its originalPath.
C13_Witness ==
    \E r \in Reqs :
        LET q == req[r]
        IN  /\ JustReturned(q, {"apply"}) /\ q.ret = "false"
            /\ q.idx > 1
            /\ store[q.actions[1].newPath] = q.pre[q.actions[1].originalPath]
            /\ store[q.actions[1].originalPath] = Absent
            /\ store # q.pre

\* GET /api/organize was answered after a listing that succeeded.
Answered == sug.pc = "done" /\ sug.listing = "ok"

SuggestedFolders == Tuple([j \in 1..Len(sug.result.files) |-> sug.result.files[j].suggestedFolder])

ListedNames == Tuple([j \in 1..Len(sug.files) |-> sug.files[j].name])

\* C14: for every non-empty file list and every classifier outcome,
\* suggestOrganization returns one entry per input file, with the same
\* objectNames in the same order and none for a name the classifier invented,
\* and every suggestedFolder is a non-empty string without a capital and
\* without whitespace.
C14_OneNormalizedEntryPerFile ==
    (Answered /\ sug.files # <<>>)
    => /\ ~sug.result.threw
       /\ Len(sug.result.files) = Len(sug.files)
       /\ \A j \in 1..Len(sug.files) :
             LET entry == sug.result.files[j]
             IN  /\ entry.objectName = sug.files[j].objectName
                 /\ entry.suggestedFolder # <<>>
                 /\ \A i \in 1..Len(entry.suggestedFolder) :
                       /\ entry.suggestedFolder[i] \notin Whitespace
                       /\ \A k \in 1..Len(UpperCase) : UpperCase[k] # entry.suggestedFolder[i]

\* The classifier answered with capitals and a run of whitespace for one
\* file, with the empty string for another, and invented a name.
C14_Witness ==
    /\ Answered
    /\ HasName(sug.outcome.mapping, InventedName)
    /\ \E j, k \in 1..Len(sug.files) :
          /\ HasName(sug.outcome.mapping, sug.files[j].name)
          /\ HasName(sug.outcome.mapping, sug.files[k].name)
          /\ FolderOf(sug.outcome.mapping, sug.files[j].name) = <<"L", "e", "g", "a", "l", " ", "\t", "D", "o", "c", "s">>
          /\ SuggestedFolders[j] = <<"l", "e", "g", "a", "l", "-", "d", "o", "c", "s">>
          /\ FolderOf(sug.outcome.mapping, sug.files[k].name) = <<>>
          /\ SuggestedFolders[k] = <<"u", "n", "c", "a", "t", "e", "g", "o", "r", "i", "z", "e", "d">>

\* C15: when the classifier call fails (the call rejects, the content is no
\* JSON or not a string-to-string mapping), the suggestion has one entry per
\* listed file and every suggestedFolder is the normalized label that
\* categorizeFile gives the file's name; Lease_Agreement.pdf and
\* Tax_Form_1099.pdf get tenant-records and tax-documents, in that order in
\* uniqueFolders.
C15_FallbackOnClassifierFailure ==
    (Answered /\ Throws(sug.outcome) /\ sug.files # <<>>)
    => /\ Len(sug.result.files) = Len(sug.files)
       /\ \A j \in 1..Len(sug.files) :
             /\ sug.result.files[j].objectName = sug.files[j].objectName
             /\ sug.result.files[j].suggestedFolder
                    = NormalizeFolder(categorizeFile(sug.files[j].name))
       /\ ListedNames = <<<<"L", "e", "a", "s", "e", "_", "A", "g", "r", "e", "e", "m", "e", "n", "t", ".", "p", "d", "f">>,
                          <<"T", "a", "x", "_", "F", "o", "r", "m", "_", "1", "0", "9", "9", ".", "p", "d", "f">>>>
          => /\ SuggestedFolders = <<<<"t", "e", "n", "a", "n", "t", "-", "r", "e", "c", "o", "r", "d", "s">>,
                                     <<"t", "a", "x", "-", "d", "o", "c", "u", "m", "e", "n", "t", "s">>>>
             /\ sug.result.uniqueFolders = SuggestedFolders

\* The response was JSON of another shape and the two files of the example
\* got their fallback folders.
C15_Witness ==
    /\ Answered
    /\ sug.outcome.kind = "invalid-schema"
    /\ ListedNames = <<<<"L", "e", "a", "s", "e", "_", "A", "g", "r", "e", "e", "m", "e", "n", "t", ".", "p", "d", "f">>,
                       <<"T", "a", "x", "_", "F", "o", "r", "m", "_", "1", "0", "9", "9", ".", "p", "d", "f">>>>
    /\ sug.result.uniqueFolders = <<<<"t", "e", "n", "a", "n", "t", "-", "r", "e", "c", "o", "r", "d", "s">>,
                                    <<"t", "a", "x", "-", "d", "o", "c", "u", "m", "e", "n", "t", "s">>>>

\* C16: suggestOrganization surfaces no failure: whatever the classifier
\* does, the request is answered 200 with a suggestion for every listed
\* file, and it is answered 500 only when the listing failed.
C16_SuggestionNeverFails ==
    sug.pc = "done"
    => /\ sug.status = 500 <=> sug.listing = "error"
       /\ sug.listing = "ok"
          => /\ sug.status = 200
             /\ ~sug.result.threw
             /\ Len(sug.result.files) = Len(sug.files)

\* The content was no JSON and the request was answered 200 with one entry
\* for each of several files.
C16_Witness ==
    /\ Answered
    /\ sug.outcome.kind = "invalid-json"
    /\ sug.status = 200
    /\ Len(sug.files) > 1
    /\ Len(sug.result.files) = Len(sug.files)

\* The folders that derive from the classifier's answers: each answer as
\* improveFolderNames renames it, normalized.
AnswerFolders(mapping) ==
    {NormalizeFolder(IF BetterName(mapping[i].folder) = <<>> THEN Uncategorized
                     ELSE BetterName(mapping[i].folder)) : i \in 1..Len(mapping)}

\* C17: when the classifier answers for some files and omits others, every
\* file it answered ends with a folder that derives from the classifier's
\* answers, not with a label of the fallback rules.  Stated for answers that
\* are not the empty string.
C17_AnsweredFilesKeepClassifierFolder ==
    (/\ Answered
     /\ sug.outcome.kind = "mapping"
     /\ \A i \in 1..Len(sug.outcome.mapping) : sug.outcome.mapping[i].folder # <<>>)
    => \A j \in 1..Len(sug.files) :
          HasName(sug.outcome.mapping, sug.files[j].name)
          => SuggestedFolders[j] \in AnswerFolders(sug.outcome.mapping)

\* C18: a moveFile that returns true has copied the object to
\* _organized/<targetFolder>/<basename> and deleted it at objectKey, and has
\* appended to History exactly one batch of exactly one action for that move,
\* marked manual-move; the revertLastOrganization that follows it returns
\* true and undoes the move.  Stated for objects other than the history
\* document.
C18_MoveFileRecordedAndReverted ==
    \A r \in Reqs :
        LET q == req[r]
            p == req[Other(r)]
        IN  /\ (JustReturned(q, {"move"}) /\ q.ret = "true" /\ ~TouchesHistory(q))
               => /\ store[NewPathOf(q.files[1])] = q.pre[q.files[1].objectName]
                  /\ store[q.files[1].objectName] = Absent
                  /\ History = Append(PreHistory(q),
                                      [batch |-> q.id,
                                       actions |-> <<MoveAction("move", q.files[1])>>])
            /\ (/\ JustReturned(q, {"revert"})
                /\ p.pc = "done" /\ p.op = "move" /\ p.ret = "true" /\ ~TouchesHistory(p)
                /\ p.id + 1 = q.id
                /\ ~p.followed)
               => /\ q.ret = "true"
                  /\ store[p.files[1].objectName] = p.pre[p.files[1].objectName]
                  /\ store[NewPathOf(p.files[1])] = Absent
                  /\ History = PreHistory(p)

\* The keys the actions of a batch name.
NamedBy(b) ==
    {b.actions[j].originalPath : j \in 1..Len(b.actions)}
        \cup {b.actions[j].newPath : j \in 1..Len(b.actions)}

\* C19: revertLastOrganization removes the last batch of History and nothing
\* else.  Whatever it returns, the batches before the last are in place,
\* unchanged and in their order, and no object is touched except those the
\* last batch names and the history document; when it returns true, History
\* is the History it found without its last batch; when it took no batch, it
\* touched nothing.
C19_RevertRemovesOnlyLastBatch ==
    \A r \in Reqs :
        LET q == req[r]
        IN  JustReturned(q, {"revert"})
            => /\ IsPrefix(Front(PreHistory(q)), History)
               /\ q.ret = "true" => History = Front(PreHistory(q))
               /\ \A k \in Keys \ (NamedBy(q.lastBatch) \cup {HistoryKey}) : store[k] = q.pre[k]
               /\ q.lastBatch = NoBatch => store = q.pre

\* A revert undid a moveFile of b/y.pdf: the earlier batch is the History,
\* and the object that batch moved is where it was.
C19_Witness ==
    \E r \in Reqs :
        LET q == req[r]
        IN  /\ JustReturned(q, {"revert"}) /\ q.ret = "true"
            /\ PreHistory(q) = <<PriorBatch, q.lastBatch>>
            /\ History = <<PriorBatch>>
            /\ NamedBy(q.lastBatch) \cap NamedBy(PriorBatch) = {}
            /\ store[PriorBatch.actions[1].newPath] = InitStore[PriorBatch.actions[1].originalPath]
            /\ store # q.pre

\* C20: applyOrganization takes its entries in the listed order; the delete
\* of an entry's objectKey is issued only when the copy of that object to its
\* newPath has succeeded; the history append comes only after the delete of
\* the last entry.  Until its turn comes an entry's object is as the call
\* found it, unless it is the newPath of an entry already taken.
C20_CopyThenDeleteInListedOrder ==
    \A r \in Reqs :
        LET q == req[r]
        IN  (q.op = "apply" /\ q.pc \in {"copy", "remove", "hget", "hput"})
            => /\ q.idx \in 1..(Len(q.files) + 1)
               /\ Len(q.actions) = IF q.pc = "remove" THEN q.idx ELSE q.idx - 1
               /\ \A j \in 1..Len(q.actions) : q.actions[j] = MoveAction("apply", q.files[j])
               /\ q.pc = "remove"
                  => /\ store[q.files[q.idx].objectName] # Absent
                     /\ store[NewPathOf(q.files[q.idx])] = store[q.files[q.idx].objectName]
               /\ q.pc \in {"copy", "remove"}
                  => /\ q.idx <= Len(q.files)
                     /\ \A j \in (q.idx + 1)..Len(q.files) :
                           \/ store[q.files[j].objectName] = q.pre[q.files[j].objectName]
                           \/ \E i \in 1..q.idx : NewPathOf(q.files[i]) = q.files[j].objectName
               /\ q.pc \in {"copy", "remove", "hget"} => q.id \notin BatchIds(History)
               /\ q.pc \in {"hget", "hput"}
                  => /\ q.idx = Len(q.files) + 1
                     /\ \A j \in 1..Len(q.files) :
                           \/ store[q.files[j].objectName] = Absent
                           \/ \E i \in 1..Len(q.files) : NewPathOf(q.files[i]) = q.files[j].objectName

\* An apply of several entries is about to write its batch: all are copied
\* and deleted, in the listed order.
C20_Witness ==
    \E r \in Reqs :
        LET q == req[r]
        IN  /\ q.op = "apply" /\ q.pc = "hput"
            /\ Len(q.files) > 1
            /\ Len(q.actions) = Len(q.files)
            /\ \A j \in 1..Len(q.files) :
                  /\ q.actions[j].originalPath = q.files[j].objectName
                  /\ store[q.files[j].objectName] = Absent
                  /\ store[NewPathOf(q.files[j])] # Absent


\* C21: getRecentUploads and suggestOrganization are read-only: no step of
\* GET /api/organize, whatever the stream delivers and whatever the
\* classifier returns, changes an object of the store or the history
\* document.
C21_ListingAndSuggestionReadOnly == [][store' = store]_vars

\* A suggestion was answered from a classifier mapping, and the bucket is as
\* it was.
C21_Witness ==
    /\ sug.pc = "done" /\ sug.status = 200
    /\ sug.called /\ sug.outcome.kind = "mapping"
    /\ Len(sug.result.files) > 1
    /\ store = InitStore

\* C22: when the stream of listObjects reports an error at any point,
\* getRecentUploads rejects and delivers no list, not even the objects seen
\* before the error: the request is answered 500, the classifier is not
\* called and the store is untouched.  A list is delivered only at the end of
\* the stream, and it is then the whole enumeration.
C22_ListingErrorIsFatal ==
    /\ sug.listing = "error"
       => /\ sug.pc = "done" /\ sug.status = 500
          /\ sug.files = <<>>
          /\ ~sug.called
          /\ sug.outcome = NoSuggestion.outcome
          /\ sug.result = NoSuggestion.result
          /\ store = InitStore
    /\ sug.pc = "stream" => sug.listing = "none" /\ sug.files = <<>>
    /\ sug.listing = "ok" => sug.pos = Len(sug.bucket) /\ sug.files = sug.bucket

\* The stream failed after it had delivered some of the objects.
C22_Witness ==
    /\ sug.listing = "error"
    /\ sug.pos > 0 /\ sug.pos < Len(sug.bucket)
    /\ Len(sug.acc) = sug.pos
    /\ sug.status = 500


\* `_organized/<folder>/<last segment of the original key>`.
HasOrganizedForm(newPath, originalPath, folder) ==
    /\ Len(newPath) = 3
    /\ newPath[1] = "_organized"
    /\ newPath[2] = folder
    /\ newPath[3] = originalPath[Len(originalPath)]

\* C23: every newPath applyOrganization or moveFile writes or records, and
\* every newPath in History, is `_organized/<folder>/<basename>` of its
\* originalPath, the folder being the entry's suggestedFolder (moveFile's
\* targetFolder).  While a call runs, an object other than the history
\* document that appeared or changed is at such a path of an entry taken.
C23_NewPathForm ==
    /\ \A i \in 1..Len(History) : \A j \in 1..Len(History[i].actions) :
          LET a == History[i].actions[j]
          IN  \E f \in Folders : HasOrganizedForm(a.newPath, a.originalPath, f)
    /\ \A r \in Reqs :
          LET q == req[r]
          IN  q.op \in {"apply", "move"}
              => /\ \A j \in 1..Len(q.actions) :
                       /\ q.actions[j].originalPath = q.files[j].objectName
                       /\ HasOrganizedForm(q.actions[j].newPath, q.files[j].objectName,
                                           q.files[j].suggestedFolder)
                 /\ q.pc = "remove"
                    => \E k \in Keys :
                          /\ HasOrganizedForm(k, q.files[q.idx].objectName, q.files[q.idx].suggestedFolder)
                          /\ store[k] = store[q.files[q.idx].objectName]
                          /\ store[k] # Absent
                 /\ q.pc \in {"copy", "remove", "hget", "hput"}
                    => \A k \in Keys \ ({HistoryKey} \cup UploadKeys) :
                          (store[k] # q.pre[k] /\ store[k] # Absent)
                          => \E j \in 1..Len(q.files) :
                                /\ j <= q.idx
                                /\ HasOrganizedForm(k, q.files[j].objectName, q.files[j].suggestedFolder)

\* An apply recorded a batch of several moves, and the objects are at the
\* recorded paths.
C23_Witness ==
    /\ Len(History) = 1
    /\ Len(History[1].actions) > 1
    /\ \A j \in 1..Len(History[1].actions) : store[History[1].actions[j].newPath] # Absent
    /\ \E j \in 1..Len(History[1].actions) :
          /\ Len(History[1].actions[j].originalPath) = 3
          /\ History[1].actions[j].newPath[3] = "x.pdf"


\* The place of the first entry with the folder.
FirstEntryWith(folder) ==
    CHOOSE j \in 1..Len(SuggestedFolders) :
        /\ SuggestedFolders[j] = folder
        /\ \A i \in 1..(j - 1) : SuggestedFolders[i] # folder

\* C24: in every suggestion suggestOrganization returns, from the classifier
\* or from the fallback, uniqueFolders holds exactly the suggestedFolder
\* values of the entries, each once, in the order of their first appearance
\* in the entries.
C24_UniqueFoldersFirstSeen ==
    (sug.pc = "done" /\ sug.status = 200)
    => LET unique == sug.result.uniqueFolders
       IN  /\ \A i, j \in 1..Len(unique) : i # j => unique[i] # unique[j]
           /\ {unique[i] : i \in 1..Len(unique)}
                  = {SuggestedFolders[j] : j \in 1..Len(SuggestedFolders)}
           /\ \A i, j \in 1..Len(unique) :
                  i < j => FirstEntryWith(unique[i]) < FirstEntryWith(unique[j])

\* The first and the third entry share a folder that the second has not, on
\* the classifier's path.
C24_Witness ==
    /\ sug.pc = "done" /\ sug.status = 200
    /\ sug.outcome.kind = "mapping"
    /\ Len(SuggestedFolders) = 3
    /\ SuggestedFolders[1] = SuggestedFolders[3]
    /\ SuggestedFolders[1] # SuggestedFolders[2]
    /\ sug.result.uniqueFolders = <<SuggestedFolders[1], SuggestedFolders[2]>>


\* C25: folder-name normalization is idempotent: normalizing a normalized
\* folder string returns the same string.
C25_NormalizationIdempotent ==
    (sug.pc = "folder" /\ sug.times > 1) => sug.suggestedFolder = sug.before

\* A name with a capital and two runs of whitespace was normalized twice.
C25_Witness ==
    /\ sug.pc = "folder" /\ sug.times = 2
    /\ sug.suggestedFolder = <<"a", "-", "b", "-">>
    /\ sug.before = sug.suggestedFolder


\* C26: whenever applyOrganization or moveFile returns true, History has
\* grown by one batch, its last, that lists every move the call performed;
\* hence a call whose write of the history document failed does not return
\* true.
C26_TrueMeansRecorded ==
    \A r \in Reqs :
        LET q == req[r]
        IN  (JustReturned(q, {"apply", "move"}) /\ q.ret = "true")
            => /\ History # <<>>
               /\ Last(History) = OwnBatch(q)
               /\ Cardinality({j \in 1..Len(History) : History[j].batch = q.id}) = 1
               /\ Len(q.actions) = Len(q.files)


\* C27: a revertLastOrganization that failed partway through a batch can be
\* retried: the revert repeated after it, in which no store operation fails,
\* returns true, with every object of the batch back at its originalPath,
\* absent from its newPath, and the batch gone from History.
C27_FailedRevertCanBeRetried ==
    \A r \in Reqs :
        LET q == req[r]
            p == req[Other(r)]
        IN  (/\ JustReturned(q, {"revert"})
             /\ p.pc = "done" /\ p.op = "revert" /\ p.ret = "false"
             /\ p.lastBatch # NoBatch
             /\ p.idx <= Len(p.lastBatch.actions)
             /\ p.id + 1 = q.id
             /\ ~p.followed
             /\ faults = 1)
            => /\ q.ret = "true"
               /\ \A j \in 1..Len(p.lastBatch.actions) :
                     /\ store[p.lastBatch.actions[j].originalPath]
                            = p.pre[p.lastBatch.actions[j].newPath]
                     /\ store[p.lastBatch.actions[j].newPath] = Absent
               /\ History = Front(PreHistory(p))


\* C28: a failed copy or delete for one entry does not end the batch:
\* applyOrganization has attempted every entry of the suggestion when it
\* reports its result.
C28_EveryEntryAttempted ==
    \A r \in Reqs :
        LET q == req[r]
        IN  (q.op = "apply" /\ q.pc = "done") => q.idx >= Len(q.files)


\* C29: getRecentUploads never returns the history document, so no
\* list-suggest-apply cycle copies it under _organized, moves it or deletes
\* it: no copy of it appears under _organized, and an apply leaves the
\* document as it found it until it appends its batch.
C29_HistoryDocumentNeverOrganized ==
    /\ \A f \in Folders : store[NewObjectName(HistoryKey, f)] = Absent
    /\ \A r \in Reqs :
          LET q == req[r]
          IN  (q.op = "apply" /\ q.pc \in {"copy", "remove", "hget"})
              => store[HistoryKey] = q.pre[HistoryKey]


\* C30: one UI instance has at most one apply or revert request in flight:
\* while an apply or a revert is pending, no control that would start
\* another apply or revert is enabled.
C30_SingleFlight ==
    /\ ui.applies + ui.reverts <= 1
    /\ ui.applies + ui.reverts > 0 => ~ApplyEnabled(ui) /\ ~RevertEnabled(ui)


\* C31: no copy issued by applyOrganization, moveFile or
\* revertLastOrganization replaces an object that exists at the destination
\* key with different content: a step of a call leaves every object other
\* than the history document as it was, or absent, unless the key was free.
C31_CopyNeverOverwrites ==
    [][(\E r \in Reqs : req'[r].pc # req[r].pc)
          => \A k \in Keys \ {HistoryKey} :
                store[k] # Absent => store'[k] \in {store[k], Absent}]_vars


\* The objects of a batch are back: each at its originalPath with the
\* content InitStore had there, and absent from its newPath.
Undone(b) ==
    \A j \in 1..Len(b.actions) :
        /\ store[b.actions[j].originalPath] = InitStore[b.actions[j].originalPath]
        /\ store[b.actions[j].newPath] = Absent

\* C32: reverts undo batches last in, first out.  After two successful calls
\* on different objects, the first successful revert takes the second batch
\* and leaves the first in History; the second successful revert takes the
\* first batch, and then every object is where it was before the first call
\* and History is empty.
C32_RevertsLastInFirstOut ==
    \A r \in Reqs :
        LET q == req[r]
            p == req[Other(r)]
        IN  /\ (JustReturned(q, {"revert"}) /\ q.ret = "true" /\ q.id = 1)
               => /\ Len(PreHistory(q)) = 2
                  /\ q.lastBatch = PreHistory(q)[2]
                  /\ q.lastBatch.batch = 0
                  /\ Undone(q.lastBatch)
                  /\ History = <<PreHistory(q)[1]>>
            /\ (/\ JustReturned(q, {"revert"}) /\ q.ret = "true" /\ q.id = 2
                /\ p.pc = "done" /\ p.op = "revert" /\ p.ret = "true" /\ ~p.followed)
               => /\ p.lastBatch = PreHistory(p)[2]
                  /\ q.lastBatch = PreHistory(p)[1]
                  /\ q.lastBatch.batch = -1
                  /\ History = <<>>
                  /\ \A k \in Keys \ {HistoryKey} :
                        store[k] = IF k \in UploadKeys THEN p.pre[k] ELSE InitStore[k]

\* Two reverts returned true after the two calls: the store is the first one.
C32_Witness ==
    \E r \in Reqs :
        LET q == req[r]
            p == req[Other(r)]
        IN  /\ JustReturned(q, {"revert"}) /\ q.ret = "true" /\ q.id = 2
            /\ p.pc = "done" /\ p.op = "revert" /\ p.ret = "true" /\ ~p.followed
            /\ p.lastBatch.batch = 0 /\ q.lastBatch.batch = -1
            /\ p.lastBatch.actions[1].newPath # q.lastBatch.actions[1].newPath
            /\ store[<<"a", "x.pdf">>] = Blob(1)
            /\ store[<<"b", "y.pdf">>] = Blob(2)
            /\ History = <<>>


FoldersOf(files) == {files[j].suggestedFolder : j \in 1..Len(files)}

\* C33: the suggestion the UI submits has one entry for every entry of the
\* suggestion received, with the folder the user left it in, and its
\* uniqueFolders are exactly the folders of these entries, each once,
\* whatever createNewFolder added; the moves the server makes are read from
\* the entries alone.
C33_SubmittedFoldersFromEntries ==
    (ui.kind = "edit" /\ ui.pc \in {"submitted", "posted"})
    => LET held == ui.organizingSuggestion
           sent == ui.submitted
       IN  /\ Len(sent.files) = Len(held.files)
           /\ \A j \in 1..Len(sent.files) :
                 /\ sent.files[j].objectName = held.files[j].objectName
                 /\ sent.files[j].suggestedFolder = ui.editedFolders[held.files[j].objectName]
           /\ {sent.uniqueFolders[i] : i \in 1..Len(sent.uniqueFolders)} = FoldersOf(sent.files)
           /\ \A i, j \in 1..Len(sent.uniqueFolders) :
                 i # j => sent.uniqueFolders[i] # sent.uniqueFolders[j]
           /\ ui.pc = "posted"
              => /\ Len(ui.moves) = Len(sent.files)
                 /\ \A j \in 1..Len(sent.files) :
                       /\ ui.moves[j].originalPath = sent.files[j].objectName
                       /\ HasOrganizedForm(ui.moves[j].newPath, sent.files[j].objectName,
                                           sent.files[j].suggestedFolder)

\* The user created a folder, moved one file into it, and the folder the
\* other file was moved out of is no longer among those submitted.
C33_Witness ==
    /\ ui.kind = "edit" /\ ui.pc = "posted"
    /\ Len(ui.organizingSuggestion.uniqueFolders) = 3
    /\ Len(ui.submitted.uniqueFolders) = 1
    /\ ui.submitted.uniqueFolders[1] = <<"n", "e", "w", "-", "f", "o", "l", "d", "e", "r">>
    /\ ui.organizingSuggestion.files[1].suggestedFolder # ui.organizingSuggestion.files[2].suggestedFolder
    /\ Len(ui.moves) = 2


\* The item that occurs most often, the one seen first among equals.
MajorityFirstSeen(arr) ==
    LET Count(x) == Cardinality({i \in 1..Len(arr) : arr[i] = x})
        best == {i \in 1..Len(arr) : \A j \in 1..Len(arr) : Count(arr[j]) <= Count(arr[i])}
    IN  arr[CHOOSE i \in best : \A j \in best : i <= j]

\* The folders assigned in the group of a name, after the renaming by
\* folderNameMap, in the order of the mapping (files the classifier omitted
\* follow with the label of categorizeFile).
AssignedInGroup(name) ==
    LET organization == AddMissing(sug.outcome.mapping, ListedNames)
        group == SamePrefix(organization, name)
    IN  Tuple([i \in 1..Len(group) |-> BetterName(group[i].folder)])

\* C34: on the classifier's path, two files whose names share the text
\* before the first underscore get one suggestedFolder: the folder assigned
\* to the most files of the group, a tie going to the folder seen first in
\* the group.
C34_SamePrefixMajority ==
    (sug.pc = "done" /\ sug.status = 200 /\ sug.outcome.kind = "mapping")
    => \A j, k \in 1..Len(sug.files) :
          (j # k /\ Prefix(sug.files[j].name) = Prefix(sug.files[k].name))
          => /\ SuggestedFolders[j] = SuggestedFolders[k]
             /\ LET folder == MajorityFirstSeen(AssignedInGroup(sug.files[j].name))
                IN  SuggestedFolders[j]
                        = NormalizeFolder(IF folder = <<>> THEN Uncategorized ELSE folder)


\* The two lists show the same display names in the same order.
SameDisplayNames ==
    /\ Len(sug.first) = Len(sug.second)
    /\ \A j \in 1..Len(sug.first) : sug.first[j].name = sug.second[j].name

\* C35: the classifier request depends only on the ordered list of display
\* names: two lists with the same names in the same order give the same
\* request, whatever the keys, folders, sizes and dates of their files.
C35_RequestDependsOnNamesOnly ==
    (sug.pc = "built" /\ SameDisplayNames)
    => sug.requests[1] = sug.requests[2]

\* Two requests built for lists of two files with the same names, where
\* every file differs from its counterpart in key, size and date.
C35_Witness ==
    /\ sug.pc = "built"
    /\ Len(sug.first) = 2
    /\ SameDisplayNames
    /\ \A j \in 1..2 : /\ sug.first[j].objectName # sug.second[j].objectName
                       /\ sug.first[j].path # sug.second[j].path
                       /\ sug.first[j].size # sug.second[j].size
                       /\ sug.first[j].uploadDate # sug.second[j].uploadDate


\* C36: a folder value taken from the classifier is trimmed, lowercased and
\* has each run of whitespace replaced by one hyphen, as the UI does with
\* the name of a newly created folder: after the service has normalized a
\* value once that createNewFolder would accept as a name (not blank), the
\* result is what createNewFolder makes of the same input.
C36_ServiceNormalizesAsUI ==
    (sug.pc = "folder" /\ sug.times = 1 /\ trim(sug.before) # <<>>)
    => sug.suggestedFolder = normalizedFolderName(sug.before)

====
